---- MODULE Spec2Model ----
(***************************************************************************)
(* A model of the region editor of PDF-Extractor: the RegionManager store *)
(* (core/region_manager.py) with its DuplicateValidator                   *)
(* (utils/validators.py), the CoordinateTransformer                       *)
(* (core/coordinate_utils.py), the pointer tools (tools/resize_tools.py,  *)
(* tools/selection_tools.py) and the event handlers of main.py that drive *)
(* them.                                                                   *)
(*                                                                         *)
(* Numbers are exact rationals <<n, d>> in lowest terms with d > 0, so a   *)
(* division by zoom * scale is a real division and not the identity.       *)
(* Labels are sequences of one-character strings, so len() and strip()     *)
(* are computed on the characters.  The application always hands its       *)
(* canvas to the RegionManager, so the "if canvas" branches are taken.     *)
(***************************************************************************)
EXTENDS Integers, Sequences, FiniteSets, TLC

(***************************************************************************)
(* Bounds of the model.                                                    *)
(***************************************************************************)
\* region rectangles are numbered 1..MaxItemId in the order of their creation;
\* an operation that would create one more is not offered
MaxItemId == 3
\* SpecApp follows the application for at most MaxEvents events
MaxEvents == 6

(***************************************************************************)
(* Exact arithmetic standing for Python's float operations.                *)
(***************************************************************************)
Abs(i) == IF i < 0 THEN -i ELSE i

RECURSIVE GCD(_, _)
GCD(a, b) == IF b = 0 THEN a ELSE GCD(b, a % b)

\* the rational n/d in lowest terms (d # 0)
Rat(n, d) ==
    LET g == GCD(Abs(n), Abs(d))
        s == IF d < 0 THEN -1 ELSE 1
    IN  IF d = 1 THEN <<n, 1>> ELSE <<(s * n) \div g, (s * d) \div g>>

R(i) == <<i, 1>>
RAdd(a, b) == Rat(a[1] * b[2] + b[1] * a[2], a[2] * b[2])
RSub(a, b) == Rat(a[1] * b[2] - b[1] * a[2], a[2] * b[2])
RMul(a, b) == Rat(a[1] * b[1], a[2] * b[2])
\* only used with b # 0; Python raises ZeroDivisionError otherwise
RDiv(a, b) == Rat(a[1] * b[2], a[2] * b[1])
RLe(a, b) == a[1] * b[2] <= b[1] * a[2]
RAbs(a) == <<Abs(a[1]), a[2]>>
\* Python's min(a, b) and max(a, b): the first argument wins a tie
RMin(a, b) == IF RLe(a, b) THEN a ELSE b
RMax(a, b) == IF RLe(b, a) THEN a ELSE b
RZero == R(0)
RBox(x0, y0, x1, y1) == <<R(x0), R(y0), R(x1), R(y1)>>

(***************************************************************************)
(* Values.                                                                 *)
(***************************************************************************)
\* Python's None for an optional label, and Some(l) for a label l
None == <<>>
Some(l) == <<l>>
\* rect_id of a region that was never drawn; Tk item ids start at 1
NoRect == 0

\* what an operation returned, as <<flag, message, count>>: a (success, message)
\* pair is Ret, a bare flag RetBool, no value RetNone; count is the number in
\* load_from_file's message
Ret(ok, msg) == <<ok, msg, 0>>
RetBool(ok) == <<ok, "", 0>>
RetNone == <<FALSE, "None", 0>>

Rep(c, n) == [i \in 1..n |-> c]
LblEmpty == <<>>
LblBlank == <<" ", "\t">>
LblA == <<"A">>
LblB == <<"B">>
\* validate_label's limit on len(label)
MaxLabelLen == 100
LblLong == Rep("x", MaxLabelLen)
LblTooLong == Rep("x", MaxLabelLen + 1)
\* the labels the operations are called with
Labels == {LblEmpty, LblBlank, LblA, LblB, LblLong, LblTooLong}

REGION_COLOR_DEFAULT == "red"
REGION_COLOR_SELECTED == "blue"
REGION_COLOR_RESIZE == "green"
RESIZE_CORNER_THRESHOLD == 20
RESIZE_CORNERS == <<"top-left", "top-right", "bottom-left", "bottom-right">>
ERROR_DUPLICATE_LABEL == "This label already exists"
DEFAULT_ZOOM == 2
DEFAULT_SCALE == 1

(***************************************************************************)
(* core/coordinate_utils.py                                                *)
(***************************************************************************)
normalize_rect(x0, y0, x1, y1) ==
    <<RMin(x0, x1), RMin(y0, y1), RMax(x0, x1), RMax(y0, y1)>>

\* a transformer state t is [zoom, scale, offset_x, offset_y]
pdf_to_image_coords(t, pdf_x, pdf_y) ==
    LET transform_factor == RMul(t.zoom, t.scale)
    IN  <<RMul(pdf_x, transform_factor), RMul(pdf_y, transform_factor)>>

\* image_to_pdf_coords handing the point back when the factor is 0
image_to_pdf_coords_passthrough(t, img_x, img_y) ==
    LET transform_factor == RMul(t.zoom, t.scale)
    IN  IF transform_factor = RZero
        THEN <<img_x, img_y>>
        ELSE <<RDiv(img_x, transform_factor), RDiv(img_y, transform_factor)>>

image_to_pdf_coords(t, img_x, img_y) ==
    LET transform_factor == RMul(t.zoom, t.scale)
    IN  IF transform_factor = RZero
        THEN <<RZero, RZero>>
        ELSE <<RDiv(img_x, transform_factor), RDiv(img_y, transform_factor)>>

canvas_to_image_coords(t, canvas_x, canvas_y) ==
    <<RSub(canvas_x, t.offset_x), RSub(canvas_y, t.offset_y)>>

image_to_canvas_coords(t, img_x, img_y) ==
    <<RAdd(img_x, t.offset_x), RAdd(img_y, t.offset_y)>>

\* "img_x, img_y = ..." followed by a call on the two: the pair is unpacked
image_point_to_canvas(t, img) == image_to_canvas_coords(t, img[1], img[2])
image_point_to_pdf(t, img) == image_to_pdf_coords(t, img[1], img[2])

\* canvas_to_pdf_coords leaving the offsets in
canvas_to_pdf_coords_no_offset(t, canvas_x, canvas_y) ==
    image_to_pdf_coords(t, canvas_x, canvas_y)

canvas_to_pdf_coords(t, canvas_x, canvas_y) ==
    image_point_to_pdf(t, canvas_to_image_coords(t, canvas_x, canvas_y))

pdf_to_canvas_coords(t, pdf_x, pdf_y) ==
    image_point_to_canvas(t, pdf_to_image_coords(t, pdf_x, pdf_y))

\* a call's outcome: the value it returns, or raised when it ends in an error
Outcome(raised, value) == [raised |-> raised, value |-> value]

\* canvas_to_pdf_delta dividing by zoom * scale as the point conversions do
canvas_to_pdf_delta_by_factor(t, dx, dy) ==
    IF t.scale = RZero \/ t.zoom = RZero
    THEN Outcome(t.scale = RZero, <<>>)
    ELSE Outcome(FALSE, <<RDiv(dx, RMul(t.zoom, t.scale)), RDiv(dy, RMul(t.zoom, t.scale))>>)

\* dx / self.scale is evaluated first and raises when scale is 0
canvas_to_pdf_delta(t, dx, dy) ==
    IF t.scale = RZero
    THEN Outcome(TRUE, <<>>)
    ELSE Outcome(FALSE, <<RDiv(dx, t.scale), RDiv(dy, t.scale)>>)

set_transform_params(zoom, scale, offset_x, offset_y) ==
    [zoom |-> zoom, scale |-> scale, offset_x |-> offset_x, offset_y |-> offset_y]

(***************************************************************************)
(* utils/validators.py                                                     *)
(***************************************************************************)
\* the characters str.strip() removes
IsSpace(c) == c \in {" ", "\t", "\n", "\r"}

RECURSIVE LStrip(_)
LStrip(s) == IF s # <<>> /\ IsSpace(Head(s)) THEN LStrip(Tail(s)) ELSE s

RECURSIVE RStrip(_)
RStrip(s) ==
    IF s # <<>> /\ IsSpace(s[Len(s)]) THEN RStrip(SubSeq(s, 1, Len(s) - 1)) ELSE s

Strip(s) == RStrip(LStrip(s))

\* validate_label without the test of len(label)
validate_label_unbounded(label, existing_labels) ==
    IF label = <<>> THEN <<FALSE, "Label cannot be empty">>
    ELSE IF Strip(label) = <<>> THEN <<FALSE, "Label cannot be only whitespace">>
    ELSE IF existing_labels # {} /\ label \in existing_labels
         THEN <<FALSE, "Label already exists">>
    ELSE <<TRUE, "">>

\* validate_label with "len(label) >= 100" for "len(label) > 100"
validate_label_strict(label, existing_labels) ==
    IF label = <<>> THEN <<FALSE, "Label cannot be empty">>
    ELSE IF Strip(label) = <<>> THEN <<FALSE, "Label cannot be only whitespace">>
    ELSE IF Len(label) >= MaxLabelLen
         THEN <<FALSE, "Label too long (max 100 characters)">>
    ELSE IF existing_labels # {} /\ label \in existing_labels
         THEN <<FALSE, "Label already exists">>
    ELSE <<TRUE, "">>

\* returns <<is_valid, error_message>>
validate_label(label, existing_labels) ==
    IF label = <<>> THEN <<FALSE, "Label cannot be empty">>
    ELSE IF Strip(label) = <<>> THEN <<FALSE, "Label cannot be only whitespace">>
    ELSE IF Len(label) > MaxLabelLen
         THEN <<FALSE, "Label too long (max 100 characters)">>
    ELSE IF existing_labels # {} /\ label \in existing_labels
         THEN <<FALSE, "Label already exists">>
    ELSE <<TRUE, "">>

\* DuplicateValidator.add_label: <<returned flag, region_labels afterwards>>
add_label(region_labels, label) ==
    IF label \in region_labels
    THEN <<FALSE, region_labels>>
    ELSE <<TRUE, region_labels \cup {label}>>

\* DuplicateValidator.remove_label
remove_label(region_labels, label) ==
    IF label \in region_labels
    THEN <<TRUE, region_labels \ {label}>>
    ELSE <<FALSE, region_labels>>

\* update_label that adds new_label and keeps old_label
update_label_keeps_old(region_labels, old_label, new_label) ==
    IF new_label \in region_labels /\ new_label # old_label
    THEN <<FALSE, region_labels>>
    ELSE <<TRUE, region_labels \cup {new_label}>>

\* update_label without the "new_label != old_label" exemption
update_label_no_self(region_labels, old_label, new_label) ==
    IF new_label \in region_labels
    THEN <<FALSE, region_labels>>
    ELSE <<TRUE, (region_labels \ {old_label}) \cup {new_label}>>

\* DuplicateValidator.update_label
update_label(region_labels, old_label, new_label) ==
    IF new_label \in region_labels /\ new_label # old_label
    THEN <<FALSE, region_labels>>
    ELSE <<TRUE, (region_labels \ {old_label}) \cup {new_label}>>

(***************************************************************************)
(* Python containers.                                                      *)
(***************************************************************************)
\* list.index(x) (1-based here) and list.remove(x) for x in the list
ListIndex(seq, x) == CHOOSE i \in 1..Len(seq) :
    seq[i] = x /\ \A j \in 1..(i - 1) : seq[j] # x

ListPop(seq, i) == SubSeq(seq, 1, i - 1) \o SubSeq(seq, i + 1, Len(seq))

ListRemove(seq, x) == ListPop(seq, ListIndex(seq, x))

\* list.insert(i, x) for 1 <= i <= Len(seq) + 1
ListInsert(seq, i, x) == SubSeq(seq, 1, i - 1) \o <<x>> \o SubSeq(seq, i, Len(seq))

\* the dict regions is the sequence of its items in insertion order, each
\* item a RegionData with its key: [label, coords, rect_id]
Keys(regions) == {regions[i].label : i \in DOMAIN regions}

KeyIndex(regions, label) == CHOOSE i \in DOMAIN regions : regions[i].label = label

\* regions[label]
Region(regions, label) == regions[KeyIndex(regions, label)]

\* del regions[label], regions.pop(label)
DictDel(regions, label) == ListPop(regions, KeyIndex(regions, label))

\* regions[label] = data: a new key goes last, an old key keeps its place
DictSet(regions, label, coords, rect_id) ==
    LET item == [label |-> label, coords |-> coords, rect_id |-> rect_id]
    IN  IF label \in Keys(regions)
        THEN [regions EXCEPT ![KeyIndex(regions, label)] = item]
        ELSE Append(regions, item)

(***************************************************************************)
(* The canvas: items maps the id of every live rectangle to its outline,   *)
(* deleted maps an id to the number of canvas.delete calls that named it.  *)
(* A store state s is the RegionManager with its validator and the canvas  *)
(* it draws on: [regions, region_order, selected_region, region_labels,    *)
(* items, next_id, deleted].                                               *)
(***************************************************************************)
\* deleted after canvas.delete was called for each of ids
DeleteCount(deleted, ids) ==
    [i \in DOMAIN deleted \cup ids |->
        (IF i \in DOMAIN deleted THEN deleted[i] ELSE 0) + (IF i \in ids THEN 1 ELSE 0)]

\* canvas.delete(id); deleting a dead id raises nothing a caller sees
CanvasDelete(items, id) == [i \in DOMAIN items \ {id} |-> items[i]]

\* canvas.itemconfig(id, outline=color) inside try/except
CanvasOutline(items, id, color) ==
    IF id \in DOMAIN items THEN [items EXCEPT ![id] = color] ELSE items

\* RegionManager._draw_region: create_rectangle hands out the next id
draw_region(s) ==
    [s EXCEPT !.items = [i \in DOMAIN s.items \cup {s.next_id} |->
                            IF i = s.next_id THEN REGION_COLOR_DEFAULT ELSE s.items[i]],
              !.next_id = s.next_id + 1]

\* RegionManager._set_region_color
set_region_color(s, label, color) ==
    IF label \in Keys(s.regions) /\ Region(s.regions, label).rect_id # NoRect
    THEN [s EXCEPT !.items = CanvasOutline(s.items, Region(s.regions, label).rect_id, color)]
    ELSE s

(***************************************************************************)
(* core/region_manager.py.  Every operation maps a store state to          *)
(* [s: the state afterwards, ret: the value returned]; add_region also     *)
(* tells whether it raised.                                                *)
(***************************************************************************)
add_region(s, label, coords) ==
    LET v == validate_label(label, s.region_labels)
        al == add_label(s.region_labels, label)
        box == normalize_rect(coords[1], coords[2], coords[3], coords[4])
        s1 == [s EXCEPT !.region_labels = al[2]]
        s2 == draw_region(s1)
    IN  IF ~v[1] THEN [s |-> s, ret |-> Ret(FALSE, v[2]), raised |-> FALSE]
        \* normalize_rect(*coords) raises TypeError unless coords has 4 items
        ELSE IF Len(coords) # 4 THEN [s |-> s, ret |-> RetNone, raised |-> TRUE]
        ELSE IF ~al[1]
             THEN [s |-> s, ret |-> Ret(FALSE, ERROR_DUPLICATE_LABEL), raised |-> FALSE]
        ELSE [s |-> [s2 EXCEPT !.regions = DictSet(s.regions, label, box, s1.next_id),
                               !.region_order = Append(s.region_order, label)],
              ret |-> Ret(TRUE, ""), raised |-> FALSE]

\* update_region_label that updates the validator before it validates new_label
update_region_label_eager(s, old_label, new_label) ==
    LET v == validate_label(new_label, s.region_labels \ {old_label})
        ul == update_label(s.region_labels, old_label, new_label)
        data == Region(s.regions, old_label)
        index == ListIndex(s.region_order, old_label)
    IN  IF old_label \notin Keys(s.regions)
        THEN [s |-> s, ret |-> Ret(FALSE, "Region not found")]
        ELSE IF ~ul[1] THEN [s |-> s, ret |-> Ret(FALSE, ERROR_DUPLICATE_LABEL)]
        ELSE IF ~v[1]
             THEN [s |-> [s EXCEPT !.region_labels = ul[2]], ret |-> Ret(FALSE, v[2])]
        ELSE [s |-> [s EXCEPT
                       !.region_labels = ul[2],
                       !.regions = DictSet(DictDel(s.regions, old_label), new_label,
                                           data.coords, data.rect_id),
                       !.region_order = [s.region_order EXCEPT ![index] = new_label],
                       !.selected_region =
                           IF s.selected_region = Some(old_label)
                           THEN Some(new_label) ELSE s.selected_region],
              ret |-> Ret(TRUE, "")]

\* update_region_label that removes old_label from region_order and appends new_label
update_region_label_appends(s, old_label, new_label) ==
    LET v == validate_label(new_label, s.region_labels \ {old_label})
        ul == update_label(s.region_labels, old_label, new_label)
        data == Region(s.regions, old_label)
    IN  IF old_label \notin Keys(s.regions)
        THEN [s |-> s, ret |-> Ret(FALSE, "Region not found")]
        ELSE IF ~v[1] THEN [s |-> s, ret |-> Ret(FALSE, v[2])]
        ELSE IF ~ul[1] THEN [s |-> s, ret |-> Ret(FALSE, ERROR_DUPLICATE_LABEL)]
        ELSE [s |-> [s EXCEPT
                       !.region_labels = ul[2],
                       !.regions = DictSet(DictDel(s.regions, old_label), new_label,
                                           data.coords, data.rect_id),
                       !.region_order = Append(ListRemove(s.region_order, old_label),
                                               new_label),
                       !.selected_region =
                           IF s.selected_region = Some(old_label)
                           THEN Some(new_label) ELSE s.selected_region],
              ret |-> Ret(TRUE, "")]

update_region_label(s, old_label, new_label) ==
    LET v == validate_label(new_label, s.region_labels \ {old_label})
        ul == update_label(s.region_labels, old_label, new_label)
        data == Region(s.regions, old_label)
        index == ListIndex(s.region_order, old_label)
    IN  IF old_label \notin Keys(s.regions)
        THEN [s |-> s, ret |-> Ret(FALSE, "Region not found")]
        ELSE IF ~v[1] THEN [s |-> s, ret |-> Ret(FALSE, v[2])]
        ELSE IF ~ul[1] THEN [s |-> s, ret |-> Ret(FALSE, ERROR_DUPLICATE_LABEL)]
        ELSE [s |-> [s EXCEPT
                       !.region_labels = ul[2],
                       !.regions = DictSet(DictDel(s.regions, old_label), new_label,
                                           data.coords, data.rect_id),
                       !.region_order = [s.region_order EXCEPT ![index] = new_label],
                       !.selected_region =
                           IF s.selected_region = Some(old_label)
                           THEN Some(new_label) ELSE s.selected_region],
              ret |-> Ret(TRUE, "")]

\* update_region_coords creating the region when the label is absent
update_region_coords_upserts(s, label, coords) ==
    LET box == normalize_rect(coords[1], coords[2], coords[3], coords[4])
    IN  [s |-> [s EXCEPT !.regions =
                    DictSet(s.regions, label, box,
                            IF label \in Keys(s.regions)
                            THEN Region(s.regions, label).rect_id ELSE NoRect)],
         ret |-> RetBool(TRUE)]

\* update_region_coords without normalize_rect
update_region_coords_raw(s, label, coords) ==
    LET data == Region(s.regions, label)
    IN  IF label \notin Keys(s.regions)
        THEN [s |-> s, ret |-> RetBool(FALSE)]
        ELSE [s |-> [s EXCEPT !.regions = DictSet(s.regions, label, coords, data.rect_id)],
              ret |-> RetBool(TRUE)]

update_region_coords(s, label, coords) ==
    LET box == normalize_rect(coords[1], coords[2], coords[3], coords[4])
        data == Region(s.regions, label)
    IN  IF label \notin Keys(s.regions)
        THEN [s |-> s, ret |-> RetBool(FALSE)]
        \* canvas.coords(rect_id, ...) repositions the rectangle, the id stays
        ELSE [s |-> [s EXCEPT !.regions = DictSet(s.regions, label, box, data.rect_id)],
              ret |-> RetBool(TRUE)]

\* remove_region that forgets validator.remove_label(label)
remove_region_label_kept(s, label) ==
    LET data == Region(s.regions, label)
    IN  IF label \notin Keys(s.regions)
        THEN [s |-> s, ret |-> RetBool(FALSE)]
        ELSE [s |-> [s EXCEPT
                       !.items = IF data.rect_id # NoRect
                                 THEN CanvasDelete(s.items, data.rect_id) ELSE s.items,
                       !.deleted = IF data.rect_id # NoRect
                                   THEN DeleteCount(s.deleted, {data.rect_id})
                                   ELSE s.deleted,
                       !.regions = DictDel(s.regions, label),
                       !.region_order = ListRemove(s.region_order, label),
                       !.selected_region =
                           IF s.selected_region = Some(label)
                           THEN None ELSE s.selected_region],
              ret |-> RetBool(TRUE)]

\* remove_region that forgets region_order.remove(label)
remove_region_order_kept(s, label) ==
    LET data == Region(s.regions, label)
    IN  IF label \notin Keys(s.regions)
        THEN [s |-> s, ret |-> RetBool(FALSE)]
        ELSE [s |-> [s EXCEPT
                       !.items = IF data.rect_id # NoRect
                                 THEN CanvasDelete(s.items, data.rect_id) ELSE s.items,
                       !.deleted = IF data.rect_id # NoRect
                                   THEN DeleteCount(s.deleted, {data.rect_id})
                                   ELSE s.deleted,
                       !.regions = DictDel(s.regions, label),
                       !.region_labels = remove_label(s.region_labels, label)[2],
                       !.selected_region =
                           IF s.selected_region = Some(label)
                           THEN None ELSE s.selected_region],
              ret |-> RetBool(TRUE)]

remove_region(s, label) ==
    LET data == Region(s.regions, label)
    IN  IF label \notin Keys(s.regions)
        THEN [s |-> s, ret |-> RetBool(FALSE)]
        ELSE [s |-> [s EXCEPT
                       !.items = IF data.rect_id # NoRect
                                 THEN CanvasDelete(s.items, data.rect_id) ELSE s.items,
                       !.deleted = IF data.rect_id # NoRect
                                   THEN DeleteCount(s.deleted, {data.rect_id})
                                   ELSE s.deleted,
                       !.regions = DictDel(s.regions, label),
                       !.region_order = ListRemove(s.region_order, label),
                       !.region_labels = remove_label(s.region_labels, label)[2],
                       !.selected_region =
                           IF s.selected_region = Some(label)
                           THEN None ELSE s.selected_region],
              ret |-> RetBool(TRUE)]

\* move_region exchanging the labels at the two indices
move_region_swaps(s, from_index, to_index) ==
    LET n == Len(s.region_order)
    IN  IF ~(0 <= from_index /\ from_index < n /\ 0 <= to_index /\ to_index < n)
        THEN [s |-> s, ret |-> RetBool(FALSE)]
        ELSE [s |-> [s EXCEPT !.region_order =
                        [s.region_order EXCEPT ![from_index + 1] = s.region_order[to_index + 1],
                                               ![to_index + 1] = s.region_order[from_index + 1]]],
              ret |-> RetBool(TRUE)]

\* move_region with the indices list.pop and list.insert take: negative ones
\* count from the end and to_index is clamped
move_region_wraps(s, from_index, to_index) ==
    LET n == Len(s.region_order)
        from == IF from_index < 0 THEN from_index + n ELSE from_index
        to0 == IF to_index < 0 THEN to_index + n - 1 ELSE to_index
        to == IF to0 < 0 THEN 0 ELSE IF to0 > n - 1 THEN n - 1 ELSE to0
    IN  IF ~(0 <= from /\ from < n)
        THEN [s |-> s, ret |-> RetBool(FALSE)]
        ELSE [s |-> [s EXCEPT !.region_order =
                        ListInsert(ListPop(s.region_order, from + 1), to + 1,
                                   s.region_order[from + 1])],
              ret |-> RetBool(TRUE)]

\* from_index and to_index are Python's 0-based indices
move_region(s, from_index, to_index) ==
    LET n == Len(s.region_order)
        label == s.region_order[from_index + 1]
    IN  IF ~(0 <= from_index /\ from_index < n /\ 0 <= to_index /\ to_index < n)
        THEN [s |-> s, ret |-> RetBool(FALSE)]
        ELSE [s |-> [s EXCEPT !.region_order =
                        ListInsert(ListPop(s.region_order, from_index + 1),
                                   to_index + 1, label)],
              ret |-> RetBool(TRUE)]

\* get_region_at_point going through the dict regions instead of region_order
get_region_at_point_dict_order(s, t, canvas_x, canvas_y) ==
    LET pt == canvas_to_pdf_coords(t, canvas_x, canvas_y)
        hit(i) == /\ RLe(s.regions[i].coords[1], pt[1]) /\ RLe(pt[1], s.regions[i].coords[3])
                  /\ RLe(s.regions[i].coords[2], pt[2]) /\ RLe(pt[2], s.regions[i].coords[4])
        hits == {i \in DOMAIN s.regions : hit(i)}
    IN  IF hits = {} THEN None
        ELSE Some(s.regions[CHOOSE i \in hits : \A j \in hits : j <= i].label)

\* "x0 <= pdf_x <= x1 and y0 <= pdf_y <= y1" for the point pt in document space
coords_contain(coords, pt) ==
    /\ RLe(coords[1], pt[1]) /\ RLe(pt[1], coords[3])
    /\ RLe(coords[2], pt[2]) /\ RLe(pt[2], coords[4])

\* the loop over reversed(region_order) for the point pt: the first hit is
\* the one with the greatest index
last_region_containing(s, pt) ==
    LET hit(i) == /\ s.region_order[i] \in Keys(s.regions)
                  /\ coords_contain(Region(s.regions, s.region_order[i]).coords, pt)
        hits == {i \in DOMAIN s.region_order : hit(i)}
    IN  IF hits = {} THEN None
        ELSE Some(s.region_order[CHOOSE i \in hits : \A j \in hits : j <= i])

\* returns Some(label) or None
get_region_at_point(s, t, canvas_x, canvas_y) ==
    last_region_containing(s, canvas_to_pdf_coords(t, canvas_x, canvas_y))

\* select_region without the "label not in self.regions" test
select_region_unchecked(s, label) ==
    LET s1 == IF s.selected_region # None
              THEN set_region_color(s, s.selected_region[1], REGION_COLOR_DEFAULT)
              ELSE s
        s2 == [s1 EXCEPT !.selected_region = Some(label)]
    IN  [s |-> set_region_color(s2, label, REGION_COLOR_SELECTED), ret |-> RetBool(TRUE)]

\* select_region that leaves the previous selection's style alone
select_region_keeps_style(s, label) ==
    IF label \notin Keys(s.regions)
    THEN [s |-> s, ret |-> RetBool(FALSE)]
    ELSE [s |-> set_region_color([s EXCEPT !.selected_region = Some(label)], label,
                                 REGION_COLOR_SELECTED),
          ret |-> RetBool(TRUE)]

select_region(s, label) ==
    LET s1 == IF s.selected_region # None
              THEN set_region_color(s, s.selected_region[1], REGION_COLOR_DEFAULT)
              ELSE s
        s2 == [s1 EXCEPT !.selected_region = Some(label)]
    IN  IF label \notin Keys(s.regions)
        THEN [s |-> s, ret |-> RetBool(FALSE)]
        ELSE [s |-> set_region_color(s2, label, REGION_COLOR_SELECTED), ret |-> RetBool(TRUE)]

clear_selection(s) ==
    LET s1 == IF s.selected_region # None
              THEN set_region_color(s, s.selected_region[1], REGION_COLOR_DEFAULT)
              ELSE s
    IN  [s1 EXCEPT !.selected_region = None]

\* clear_all_regions leaving the validator's labels in place
clear_all_regions_keeps_labels(s) ==
    [s EXCEPT !.items = [i \in DOMAIN s.items \ {s.regions[k].rect_id : k \in DOMAIN s.regions}
                            |-> s.items[i]],
              !.deleted = DeleteCount(s.deleted,
                                      {s.regions[k].rect_id : k \in DOMAIN s.regions}),
              !.regions = <<>>,
              !.region_order = <<>>,
              !.selected_region = None]

clear_all_regions(s) ==
    [s EXCEPT !.items = [i \in DOMAIN s.items \ {s.regions[k].rect_id : k \in DOMAIN s.regions}
                            |-> s.items[i]],
              !.deleted = DeleteCount(s.deleted,
                                      {s.regions[k].rect_id : k \in DOMAIN s.regions}),
              !.regions = <<>>,
              !.region_order = <<>>,
              !.region_labels = {},
              !.selected_region = None]

\* redraw_all_regions: every region gets a new rectangle, in region_order
RECURSIVE redraw_from(_, _)
redraw_from(s, k) ==
    IF k > Len(s.region_order) THEN s
    ELSE LET label == s.region_order[k]
             data == Region(s.regions, label)
             s1 == IF data.rect_id # NoRect
                   THEN [s EXCEPT !.items = CanvasDelete(s.items, data.rect_id),
                                  !.deleted = DeleteCount(s.deleted, {data.rect_id})]
                   ELSE s
             s2 == draw_region(s1)
             s3 == [s2 EXCEPT !.regions =
                        DictSet(s1.regions, label, data.coords, s1.next_id)]
             s4 == IF Some(label) = s.selected_region
                   THEN set_region_color(s3, label, REGION_COLOR_SELECTED)
                   ELSE s3
         IN  IF label \in Keys(s.regions) THEN redraw_from(s4, k + 1)
             ELSE redraw_from(s, k + 1)

redraw_all_regions(s) == redraw_from(s, 1)

(***************************************************************************)
(* The file regions.json as json.load sees it: missing, not JSON, JSON     *)
(* that is no object, or an object with "order" (a list of labels) and     *)
(* "regions" (label -> [has_coords, coords]).                              *)
(***************************************************************************)
Entry(coords) == [has_coords |-> TRUE, coords |-> coords]
NoCoords == [has_coords |-> FALSE, coords |-> <<>>]
FileObject(order, regions_data) ==
    [kind |-> "object", order |-> order, regions |-> regions_data]
FileMissing == [kind |-> "missing", order |-> <<>>, regions |-> <<>>]
FileGarbage == [kind |-> "garbage", order |-> <<>>, regions |-> <<>>]
FileList == [kind |-> "list", order |-> <<>>, regions |-> <<>>]

\* RegionData.to_dict for every item of the dict: label -> {"coords": coords}
regions_to_dict(regions) ==
    [l \in Keys(regions) |-> Entry(Region(regions, l).coords)]

\* save_to_file writing the keys of the dict regions as "order"
save_to_file_dict_order(s, file, writable) ==
    IF ~writable THEN [file |-> file, ret |-> Ret(FALSE, "Failed to save")]
    ELSE [file |-> FileObject([i \in DOMAIN s.regions |-> s.regions[i].label],
                              regions_to_dict(s.regions)),
          ret |-> Ret(TRUE, "Saved")]

\* save_to_file returns [file, ret]: file is regions.json afterwards, the
\* file it was when open() or json.dump raises (writable = FALSE)
save_to_file(s, file, writable) ==
    IF ~writable THEN [file |-> file, ret |-> Ret(FALSE, "Failed to save")]
    ELSE [file |-> FileObject(s.region_order, regions_to_dict(s.regions)),
          ret |-> Ret(TRUE, "Saved")]

\* the loop of load_from_file from position k of order; acc is
\* [s, loaded_count, raised]
RECURSIVE load_loop(_, _, _)
load_loop(acc, data, k) ==
    IF acc.raised \/ k > Len(data.order) THEN acc
    ELSE LET label == data.order[k]
             region_info == data.regions[label]
             r == add_region(acc.s, label, region_info.coords)
         IN  IF label \notin DOMAIN data.regions THEN load_loop(acc, data, k + 1)
             \* region_info["coords"] raises KeyError
             ELSE IF ~region_info.has_coords THEN [acc EXCEPT !.raised = TRUE]
             ELSE IF r.raised THEN [acc EXCEPT !.raised = TRUE]
             ELSE load_loop([s |-> r.s,
                             loaded_count |-> IF r.ret[1] THEN acc.loaded_count + 1
                                              ELSE acc.loaded_count,
                             raised |-> FALSE], data, k + 1)

\* load_from_file without its clear_all_regions
load_from_file_keeps(s, data) ==
    LET acc == load_loop([s |-> s, loaded_count |-> 0, raised |-> FALSE], data, 1)
    IN  IF data.kind = "missing" THEN [s |-> s, ret |-> Ret(FALSE, "File not found")]
        ELSE IF data.kind \in {"garbage", "list"}
             THEN [s |-> s, ret |-> Ret(FALSE, "Failed to load")]
        ELSE IF acc.raised THEN [s |-> acc.s, ret |-> Ret(FALSE, "Failed to load")]
        ELSE [s |-> acc.s, ret |-> <<TRUE, "Loaded", acc.loaded_count>>]

\* a success returns "Loaded {loaded_count} regions from {filename}"
load_from_file(s, data) ==
    LET cleared == clear_all_regions(s)
        acc == load_loop([s |-> cleared, loaded_count |-> 0, raised |-> FALSE], data, 1)
    IN  IF data.kind = "missing" THEN [s |-> s, ret |-> Ret(FALSE, "File not found")]
        ELSE IF data.kind = "garbage" THEN [s |-> s, ret |-> Ret(FALSE, "Failed to load")]
        \* data.get raises AttributeError after the store was cleared
        ELSE IF data.kind = "list" THEN [s |-> cleared, ret |-> Ret(FALSE, "Failed to load")]
        ELSE IF acc.raised THEN [s |-> acc.s, ret |-> Ret(FALSE, "Failed to load")]
        ELSE [s |-> acc.s, ret |-> <<TRUE, "Loaded", acc.loaded_count>>]

(***************************************************************************)
(* tools/resize_tools.py.  A ResizeTool state rt is the record of its      *)
(* fields; s is the store it works on and t the transformer.               *)
(***************************************************************************)
NoCorner == "None"

\* "dx <= threshold and dy <= threshold" for one corner
corner_is_near(canvas_x, canvas_y, corner_x, corner_y) ==
    /\ RLe(RAbs(RSub(canvas_x, corner_x)), R(RESIZE_CORNER_THRESHOLD))
    /\ RLe(RAbs(RSub(canvas_y, corner_y)), R(RESIZE_CORNER_THRESHOLD))

\* the loop over corners.items() for the box c0-c1 in canvas space
first_near_corner(canvas_x, canvas_y, c0, c1) ==
    IF corner_is_near(canvas_x, canvas_y, c0[1], c0[2]) THEN "top-left"
    ELSE IF corner_is_near(canvas_x, canvas_y, c1[1], c0[2]) THEN "top-right"
    ELSE IF corner_is_near(canvas_x, canvas_y, c0[1], c1[2]) THEN "bottom-left"
    ELSE IF corner_is_near(canvas_x, canvas_y, c1[1], c1[2]) THEN "bottom-right"
    ELSE NoCorner

\* check_corner_proximity once the region's coords c are read
corner_of_box(t, canvas_x, canvas_y, c) ==
    first_near_corner(canvas_x, canvas_y,
                      pdf_to_canvas_coords(t, c[1], c[2]),
                      pdf_to_canvas_coords(t, c[3], c[4]))

check_corner_proximity(s, t, canvas_x, canvas_y, region_label) ==
    IF region_label \notin Keys(s.regions) THEN NoCorner
    ELSE corner_of_box(t, canvas_x, canvas_y, Region(s.regions, region_label).coords)

\* ResizeTool._set_resize_visual: only is_resize_mode = True changes a colour,
\* and the rectangle it colours is the one of resize_region
set_resize_visual(rt, s, is_resize_mode) ==
    IF rt.resize_region = None \/ ~is_resize_mode THEN s
    ELSE set_region_color(s, rt.resize_region[1], REGION_COLOR_RESIZE)

\* the start_*, update_* and finish_* operations return [rt, s, ret]
start_resize(rt, s, region_label, corner, canvas_x, canvas_y) ==
    LET rt1 == [rt EXCEPT !.is_resizing = TRUE,
                          !.resize_region = Some(region_label),
                          !.resize_corner = corner,
                          !.start_coords = <<canvas_x, canvas_y>>,
                          !.original_coords = Region(s.regions, region_label).coords]
    IN  IF region_label \notin Keys(s.regions) THEN [rt |-> rt, s |-> s, ret |-> FALSE]
        ELSE IF \A k \in 1..4 : RESIZE_CORNERS[k] # corner
             THEN [rt |-> rt, s |-> s, ret |-> FALSE]
        ELSE [rt |-> rt1, s |-> set_resize_visual(rt1, s, TRUE), ret |-> TRUE]

start_move(rt, s, t, region_label, canvas_x, canvas_y) ==
    LET c == Region(s.regions, region_label).coords
        rt1 == [rt EXCEPT !.is_moving = TRUE,
                          !.move_region = Some(region_label),
                          !.move_start_coords = <<canvas_x, canvas_y>>,
                          !.original_coords_move = c,
                          !.original_coords_move_pdf = c,
                          !.original_coords_move_canvas =
                              <<pdf_to_canvas_coords(t, c[1], c[2]),
                                pdf_to_canvas_coords(t, c[3], c[4])>>]
    IN  IF region_label \notin Keys(s.regions) THEN [rt |-> rt, s |-> s, ret |-> FALSE]
        ELSE [rt |-> rt1, s |-> set_resize_visual(rt1, s, TRUE), ret |-> TRUE]

\* update_move taking the document-space length of the drag from
\* canvas_to_pdf_delta, which divides by scale only
update_move_by_scale(rt, s, t, canvas_x, canvas_y) ==
    LET d == canvas_to_pdf_delta(t, RSub(canvas_x, rt.move_start_coords[1]),
                                 RSub(canvas_y, rt.move_start_coords[2])).value
        o == rt.original_coords_move_pdf
    IN  IF ~rt.is_moving \/ rt.move_region = None THEN [rt |-> rt, s |-> s, ret |-> FALSE]
        ELSE [rt |-> rt,
              s |-> update_region_coords(s, rt.move_region[1],
                                         <<RAdd(o[1], d[1]), RAdd(o[2], d[2]),
                                           RAdd(o[3], d[1]), RAdd(o[4], d[2])>>).s,
              ret |-> TRUE]

\* update_move shifting the region's current box instead of the box captured
\* at the press
update_move_incremental(rt, s, t, canvas_x, canvas_y) ==
    LET dx == RSub(canvas_x, rt.move_start_coords[1])
        dy == RSub(canvas_y, rt.move_start_coords[2])
        c == Region(s.regions, rt.move_region[1]).coords
        oc == <<pdf_to_canvas_coords(t, c[1], c[2]), pdf_to_canvas_coords(t, c[3], c[4])>>
        p0 == canvas_to_pdf_coords(t, RAdd(oc[1][1], dx), RAdd(oc[1][2], dy))
        p1 == canvas_to_pdf_coords(t, RAdd(oc[2][1], dx), RAdd(oc[2][2], dy))
    IN  IF ~rt.is_moving \/ rt.move_region = None THEN [rt |-> rt, s |-> s, ret |-> FALSE]
        ELSE [rt |-> rt,
              s |-> update_region_coords(s, rt.move_region[1],
                                         <<p0[1], p0[2], p1[1], p1[2]>>).s,
              ret |-> TRUE]

update_move(rt, s, t, canvas_x, canvas_y) ==
    LET dx == RSub(canvas_x, rt.move_start_coords[1])
        dy == RSub(canvas_y, rt.move_start_coords[2])
        oc == rt.original_coords_move_canvas
        p0 == canvas_to_pdf_coords(t, RAdd(oc[1][1], dx), RAdd(oc[1][2], dy))
        p1 == canvas_to_pdf_coords(t, RAdd(oc[2][1], dx), RAdd(oc[2][2], dy))
    IN  IF ~rt.is_moving \/ rt.move_region = None THEN [rt |-> rt, s |-> s, ret |-> FALSE]
        ELSE [rt |-> rt,
              s |-> update_region_coords(s, rt.move_region[1],
                                         <<p0[1], p0[2], p1[1], p1[2]>>).s,
              ret |-> TRUE]

finish_move(rt, s) ==
    IF ~rt.is_moving THEN [rt |-> rt, s |-> s, ret |-> FALSE]
    ELSE [rt |-> [rt EXCEPT !.is_moving = FALSE,
                            !.move_region = None,
                            !.move_start_coords = None,
                            !.original_coords_move_pdf = None,
                            !.original_coords_move_canvas = None],
          s |-> set_resize_visual(rt, s, FALSE), ret |-> TRUE]

\* update_resize working from the region's current coords instead of the
\* coords captured at the press
update_resize_incremental(rt, s, t, canvas_x, canvas_y) ==
    LET o == Region(s.regions, rt.resize_region[1]).coords
        p == canvas_to_pdf_coords(t, canvas_x, canvas_y)
        new_coords ==
            CASE rt.resize_corner = "top-left" -> <<p[1], p[2], o[3], o[4]>>
              [] rt.resize_corner = "top-right" -> <<o[1], p[2], p[1], o[4]>>
              [] rt.resize_corner = "bottom-left" -> <<p[1], o[2], o[3], p[2]>>
              [] OTHER -> <<o[1], o[2], p[1], p[2]>>
        u == update_region_coords(s, rt.resize_region[1], new_coords)
    IN  IF ~rt.is_resizing \/ rt.resize_region = None
        THEN [rt |-> rt, s |-> s, ret |-> FALSE]
        ELSE [rt |-> rt, s |-> u.s, ret |-> u.ret[1]]

update_resize(rt, s, t, canvas_x, canvas_y) ==
    LET o == rt.original_coords
        p == canvas_to_pdf_coords(t, canvas_x, canvas_y)
        new_coords ==
            CASE rt.resize_corner = "top-left" -> <<p[1], p[2], o[3], o[4]>>
              [] rt.resize_corner = "top-right" -> <<o[1], p[2], p[1], o[4]>>
              [] rt.resize_corner = "bottom-left" -> <<p[1], o[2], o[3], p[2]>>
              [] OTHER -> <<o[1], o[2], p[1], p[2]>>
        u == update_region_coords(s, rt.resize_region[1], new_coords)
    IN  IF ~rt.is_resizing \/ rt.resize_region = None
        THEN [rt |-> rt, s |-> s, ret |-> FALSE]
        ELSE IF \A k \in 1..4 : RESIZE_CORNERS[k] # rt.resize_corner
             THEN [rt |-> rt, s |-> s, ret |-> FALSE]
        ELSE [rt |-> rt, s |-> u.s, ret |-> u.ret[1]]

finish_resize(rt, s) ==
    IF ~rt.is_resizing THEN [rt |-> rt, s |-> s, ret |-> FALSE]
    ELSE [rt |-> [rt EXCEPT !.is_resizing = FALSE,
                            !.resize_region = None,
                            !.resize_corner = NoCorner,
                            !.start_coords = None,
                            !.original_coords = None],
          s |-> set_resize_visual(rt, s, FALSE), ret |-> TRUE]

\* cancel_resize that ends the resize and keeps what the drags wrote
cancel_resize_keeps_drag(rt, s) ==
    IF ~rt.is_resizing \/ rt.resize_region = None THEN [rt |-> rt, s |-> s, ret |-> FALSE]
    ELSE finish_resize(rt, s)

cancel_resize(rt, s) ==
    IF ~rt.is_resizing \/ rt.resize_region = None THEN [rt |-> rt, s |-> s, ret |-> FALSE]
    ELSE finish_resize(rt, update_region_coords(s, rt.resize_region[1],
                                                rt.original_coords).s)

\* the region's box in canvas space contains the point, its boundary included
\* "cx0 <= x <= cx1 and cy0 <= y <= cy1" for the box c0-c1 in canvas space
box_contains(c0, c1, x, y) ==
    RLe(c0[1], x) /\ RLe(x, c1[1]) /\ RLe(c0[2], y) /\ RLe(y, c1[2])

ContainsCanvasPoint(t, region, x, y) ==
    box_contains(pdf_to_canvas_coords(t, region.coords[1], region.coords[2]),
                 pdf_to_canvas_coords(t, region.coords[3], region.coords[4]), x, y)

\* the first region, in the iteration order of the dict, with a corner near (x, y)
first_near_region(s, t, x, y) ==
    s.regions[CHOOSE i \in DOMAIN s.regions :
        /\ check_corner_proximity(s, t, x, y, s.regions[i].label) # NoCorner
        /\ \A j \in 1..(i - 1) :
              check_corner_proximity(s, t, x, y, s.regions[j].label) = NoCorner].label

\* the first region, in the iteration order of the dict, that contains (x, y)
first_containing_region(s, t, x, y) ==
    s.regions[CHOOSE i \in DOMAIN s.regions :
        /\ ContainsCanvasPoint(t, s.regions[i], x, y)
        /\ \A j \in 1..(i - 1) : ~ContainsCanvasPoint(t, s.regions[j], x, y)].label

\* the body of the first loop for the region whose corner is near
press_corner(rt, s, t, label, x, y) ==
    start_resize(rt, s, label, check_corner_proximity(s, t, x, y, label), x, y)

\* r with the cursor the canvas shows afterwards
WithCursor(r, cur) == [rt |-> r.rt, s |-> r.s, cursor |-> cur]

\* handle_mouse_press with the two loops exchanged: containment is tried first
resize_handle_mouse_press_inside_first(rt, s, t, cur, x, y) ==
    LET near(region) == check_corner_proximity(s, t, x, y, region.label) # NoCorner
        inside(region) == ContainsCanvasPoint(t, region, x, y)
    IN  IF \E i \in DOMAIN s.regions : inside(s.regions[i])
        THEN WithCursor(start_move(rt, s, t, first_containing_region(s, t, x, y), x, y),
                        "fleur")
        ELSE IF \E i \in DOMAIN s.regions : near(s.regions[i])
             THEN WithCursor(press_corner(rt, s, t, first_near_region(s, t, x, y), x, y), cur)
        ELSE [rt |-> rt, s |-> s, cursor |-> cur]

\* ResizeTool.handle_mouse_press returns [rt, s, cursor]
resize_handle_mouse_press(rt, s, t, cur, x, y) ==
    LET near(region) == check_corner_proximity(s, t, x, y, region.label) # NoCorner
        inside(region) == ContainsCanvasPoint(t, region, x, y)
    IN  IF \E i \in DOMAIN s.regions : near(s.regions[i])
        THEN WithCursor(press_corner(rt, s, t, first_near_region(s, t, x, y), x, y), cur)
        ELSE IF \E i \in DOMAIN s.regions : inside(s.regions[i])
             THEN WithCursor(start_move(rt, s, t, first_containing_region(s, t, x, y), x, y),
                             "fleur")
        ELSE [rt |-> rt, s |-> s, cursor |-> cur]

resize_handle_mouse_drag(rt, s, t, x, y) ==
    IF rt.is_resizing THEN update_resize(rt, s, t, x, y)
    ELSE IF rt.is_moving THEN update_move(rt, s, t, x, y)
    ELSE [rt |-> rt, s |-> s, ret |-> FALSE]

resize_handle_mouse_release(rt, s) ==
    IF rt.is_resizing THEN finish_resize(rt, s)
    ELSE IF rt.is_moving THEN finish_move(rt, s)
    ELSE [rt |-> rt, s |-> s, ret |-> FALSE]

get_cursor_for_corner(corner) ==
    CASE corner = "top-left" -> "size_nw_se"
      [] corner = "top-right" -> "size_ne_sw"
      [] corner = "bottom-left" -> "size_ne_sw"
      [] corner = "bottom-right" -> "size_nw_se"
      [] OTHER -> ""

\* the four indicator squares, by their centres in canvas space
box_corners(c0, c1) == <<c0, <<c1[1], c0[2]>>, <<c0[1], c1[2]>>, c1>>

corners_of_box(t, c) ==
    box_corners(pdf_to_canvas_coords(t, c[1], c[2]), pdf_to_canvas_coords(t, c[3], c[4]))

draw_corner_indicators(s, t, region_label) ==
    IF region_label \notin Keys(s.regions) THEN <<>>
    ELSE corners_of_box(t, Region(s.regions, region_label).coords)

\* ResizeTool.handle_mouse_move returns [cursor, corner_indicators]
\* the body of the loop for the region whose corner is near
hover_corner(s, t, label, x, y) ==
    [cursor |-> get_cursor_for_corner(check_corner_proximity(s, t, x, y, label)),
     corner_indicators |-> draw_corner_indicators(s, t, label)]

resize_handle_mouse_move(s, t, x, y) ==
    LET near(region) == check_corner_proximity(s, t, x, y, region.label) # NoCorner
    IN  IF s.regions = <<>> THEN [cursor |-> "", corner_indicators |-> <<>>]
        ELSE IF \E i \in DOMAIN s.regions : near(s.regions[i])
             THEN hover_corner(s, t, first_near_region(s, t, x, y), x, y)
        ELSE [cursor |-> "", corner_indicators |-> <<>>]

(***************************************************************************)
(* tools/selection_tools.py.  A BoxSelectionTool state bt is               *)
(* [start_pos, temp_rect, is_drawing]; temp_rect is the dashed rectangle   *)
(* by its canvas coordinates, or None.                                     *)
(***************************************************************************)
box_handle_mouse_press(bt, t, cx, cy) ==
    [start_pos |-> canvas_to_image_coords(t, cx, cy),
     temp_rect |-> None,
     is_drawing |-> TRUE]

box_handle_mouse_drag(bt, t, cx, cy) ==
    LET i == canvas_to_image_coords(t, cx, cy)
        c0 == image_to_canvas_coords(t, bt.start_pos[1], bt.start_pos[2])
        c1 == image_to_canvas_coords(t, i[1], i[2])
    IN  IF ~bt.is_drawing \/ bt.start_pos = None THEN bt
        ELSE [bt EXCEPT !.temp_rect = <<c0[1], c0[2], c1[1], c1[2]>>]

\* handle_mouse_release without its _clear_temp_rect
box_handle_mouse_release_keeps_rect(bt, t, cx, cy) ==
    LET i == canvas_to_image_coords(t, cx, cy)
        n == normalize_rect(bt.start_pos[1], bt.start_pos[2], i[1], i[2])
        p0 == image_to_pdf_coords(t, n[1], n[2])
        p1 == image_to_pdf_coords(t, n[3], n[4])
    IN  IF ~bt.is_drawing \/ bt.start_pos = None
        THEN [bt |-> bt, handled |-> FALSE, coords |-> None]
        ELSE [bt |-> [start_pos |-> None, temp_rect |-> bt.temp_rect,
                      is_drawing |-> FALSE],
              handled |-> TRUE,
              coords |-> <<p0[1], p0[2], p1[1], p1[2]>>]

\* returns [bt, handled, coords]
box_handle_mouse_release(bt, t, cx, cy) ==
    LET i == canvas_to_image_coords(t, cx, cy)
        n == normalize_rect(bt.start_pos[1], bt.start_pos[2], i[1], i[2])
        p0 == image_to_pdf_coords(t, n[1], n[2])
        p1 == image_to_pdf_coords(t, n[3], n[4])
    IN  IF ~bt.is_drawing \/ bt.start_pos = None
        THEN [bt |-> bt, handled |-> FALSE, coords |-> None]
        ELSE [bt |-> [start_pos |-> None, temp_rect |-> None, is_drawing |-> FALSE],
              handled |-> TRUE,
              coords |-> <<p0[1], p0[2], p1[1], p1[2]>>]

cancel_drawing(bt) == [start_pos |-> None, temp_rect |-> None, is_drawing |-> FALSE]

\* SelectionToolManager.set_tool returns [bt, current_tool]
set_tool(bt, cur_tool, tool_name) ==
    IF tool_name \notin {"word", "box"} THEN [bt |-> bt, current_tool |-> cur_tool]
    ELSE [bt |-> IF cur_tool = "box" THEN cancel_drawing(bt) ELSE bt,
          current_tool |-> tool_name]

(***************************************************************************)
(* core/pdf_manager.py: the words of the page and where they are.          *)
(***************************************************************************)
\* the words of the first page with their boxes in document space
PageWords == <<<<RBox(10, 10, 30, 20), "word">>>>

\* PDFManager._build_text_coords: the boxes in image space
build_text_coords(zoom, scale) ==
    [k \in DOMAIN PageWords |->
        LET b == PageWords[k][1]
            f == RMul(zoom, scale)
        IN  <<<<RMul(b[1], f), RMul(b[2], f), RMul(b[3], f), RMul(b[4], f)>>,
              PageWords[k][2]>>]

\* PDFManager.find_word_at_position: Some(<<bbox, word>>) or None
find_word_at_position(tc, t, canvas_x, canvas_y) ==
    LET i == canvas_to_image_coords(t, canvas_x, canvas_y)
        hit(k) == /\ RLe(tc[k][1][1], i[1]) /\ RLe(i[1], tc[k][1][3])
                  /\ RLe(tc[k][1][2], i[2]) /\ RLe(i[2], tc[k][1][4])
    IN  IF \E k \in DOMAIN tc : hit(k)
        THEN Some(tc[CHOOSE k \in DOMAIN tc : hit(k) /\ \A j \in 1..(k - 1) : ~hit(j)])
        ELSE None

\* WordSelectionTool.create_word_region
create_word_region(s, t, word_bbox, label) ==
    LET p0 == image_to_pdf_coords(t, word_bbox[1], word_bbox[2])
        p1 == image_to_pdf_coords(t, word_bbox[3], word_bbox[4])
    IN  add_region(s, label, <<p0[1], p0[2], p1[1], p1[2]>>)

(***************************************************************************)
(* PDFManager's file list and the validator's file set.  A path is its     *)
(* text, a sequence of characters; os.path is the POSIX one.               *)
(***************************************************************************)
\* os.getcwd()
Cwd == <<"/", "d">>
\* the file_path arguments of add_pdfs
Paths ==
    [a |-> <<"/", "d", "/", "a", ".", "p", "d", "f">>,
     a_dot |-> <<"/", "d", "/", ".", "/", "a", ".", "p", "d", "f">>,
     a_rel |-> <<"a", ".", "p", "d", "f">>,
     b |-> <<"/", "d", "/", "b", ".", "p", "d", "f">>,
     b_up |-> <<"s", "/", ".", ".", "/", "b", ".", "p", "d", "f">>,
     c_upper |-> <<"/", "d", "/", "C", ".", "P", "D", "F">>,
     e |-> <<"/", "d", "/", "e", ".", "p", "d", "f">>,
     txt |-> <<"/", "d", "/", "n", ".", "t", "x", "t">>,
     missing |-> <<"/", "d", "/", "m", ".", "p", "d", "f">>,
     dir |-> <<"/", "d", "/", "s">>,
     empty |-> <<>>]
PathTexts == {Paths[k] : k \in DOMAIN Paths}
\* the file system: regular files and directories, by absolute path
Disk == [files |-> {Paths.a, Paths.b, Paths.c_upper, Paths.e, Paths.txt},
         dirs |-> {<<"/">>, Cwd, Paths.dir}]

\* str.split('/')
RECURSIVE split_path(_, _, _)
split_path(text, cur, acc) ==
    IF text = <<>> THEN Append(acc, cur)
    ELSE IF Head(text) = "/" THEN split_path(Tail(text), <<>>, Append(acc, cur))
    ELSE split_path(Tail(text), Append(cur, Head(text)), acc)

\* '/'.join(comps)
RECURSIVE join_path(_)
join_path(comps) ==
    IF comps = <<>> THEN <<>>
    ELSE IF Len(comps) = 1 THEN comps[1]
    ELSE comps[1] \o <<"/">> \o join_path(Tail(comps))

\* the component loop of os.path.normpath
RECURSIVE normpath_comps(_, _, _)
normpath_comps(comps, initial_slashes, new_comps) ==
    IF comps = <<>> THEN new_comps
    ELSE LET comp == Head(comps)
             rest == Tail(comps)
         IN  IF comp = <<>> \/ comp = <<".">>
             THEN normpath_comps(rest, initial_slashes, new_comps)
             ELSE IF \/ comp # <<".", ".">>
                     \/ (initial_slashes = 0 /\ new_comps = <<>>)
                     \/ (new_comps # <<>> /\ new_comps[Len(new_comps)] = <<".", ".">>)
             THEN normpath_comps(rest, initial_slashes, Append(new_comps, comp))
             ELSE IF new_comps # <<>>
             THEN normpath_comps(rest, initial_slashes,
                                 SubSeq(new_comps, 1, Len(new_comps) - 1))
             ELSE normpath_comps(rest, initial_slashes, new_comps)

\* str.startswith
startswith(text, prefix) ==
    Len(text) >= Len(prefix) /\ SubSeq(text, 1, Len(prefix)) = prefix

\* str.endswith
endswith(text, suffix) ==
    /\ Len(text) >= Len(suffix)
    /\ SubSeq(text, Len(text) - Len(suffix) + 1, Len(text)) = suffix

\* os.path.normpath
normpath(path) ==
    IF path = <<>> THEN <<".">>
    ELSE LET initial_slashes ==
                 IF ~startswith(path, <<"/">>) THEN 0
                 ELSE IF startswith(path, <<"/", "/">>)
                         /\ ~startswith(path, <<"/", "/", "/">>) THEN 2
                 ELSE 1
             joined == Rep("/", initial_slashes)
                           \o join_path(normpath_comps(split_path(path, <<>>, <<>>),
                                                       initial_slashes, <<>>))
         IN  IF joined = <<>> THEN <<".">> ELSE joined

\* os.path.abspath
abspath(path) ==
    IF startswith(path, <<"/">>) THEN normpath(path)
    ELSE normpath(Cwd \o <<"/">> \o path)

\* the path a DuplicateValidator file method tracks
normalized_path(file_path) == normpath(abspath(file_path))

\* str.lower
lower(text) ==
    [i \in DOMAIN text |->
        IF text[i] = "C" THEN "c" ELSE IF text[i] = "D" THEN "d"
        ELSE IF text[i] = "F" THEN "f" ELSE IF text[i] = "P" THEN "p"
        ELSE text[i]]

\* os.path.basename
basename(path) ==
    LET comps == split_path(path, <<>>, <<>>) IN comps[Len(comps)]

\* validate_pdf_path: (is_valid, error_message)
validate_pdf_path(file_path) ==
    IF file_path = <<>> THEN <<FALSE, "No file path provided">>
    ELSE IF abspath(file_path) \notin Disk.files \cup Disk.dirs
    THEN <<FALSE, "File does not exist">>
    ELSE IF abspath(file_path) \notin Disk.files
    THEN <<FALSE, "Path is not a file">>
    ELSE IF ~endswith(lower(file_path), <<".", "p", "d", "f">>)
    THEN <<FALSE, "File is not a PDF">>
    ELSE <<TRUE, "">>

\* DuplicateValidator.is_duplicate_file, comparing the text it was given
is_duplicate_file_raw_text(file_paths, file_path) ==
    file_path \in file_paths

\* DuplicateValidator.is_duplicate_file
is_duplicate_file(file_paths, file_path) ==
    normalized_path(file_path) \in file_paths

\* DuplicateValidator.add_file
add_file(file_paths, file_path) ==
    IF normalized_path(file_path) \in file_paths
    THEN <<FALSE, file_paths>>
    ELSE <<TRUE, file_paths \cup {normalized_path(file_path)}>>

\* DuplicateValidator.remove_file
remove_file(file_paths, file_path) ==
    IF normalized_path(file_path) \in file_paths
    THEN <<TRUE, file_paths \ {normalized_path(file_path)}>>
    ELSE <<FALSE, file_paths>>

\* DuplicateValidator.clear_files
clear_files(file_paths) == {}

ERROR_DUPLICATE_FILE == "This PDF file is already imported"

\* the loop of PDFManager.add_pdfs over file_paths[k..]
RECURSIVE add_pdfs_loop(_, _, _, _, _)
add_pdfs_loop(p, file_paths, k, added_count, error_messages) ==
    IF k > Len(file_paths)
    THEN [p |-> p, ret |-> <<added_count, error_messages>>]
    ELSE LET file_path == file_paths[k]
             v == validate_pdf_path(file_path)
             a == add_file(p.file_paths, file_path)
         IN  IF ~v[1]
             THEN add_pdfs_loop(p, file_paths, k + 1, added_count,
                                Append(error_messages, <<basename(file_path), v[2]>>))
             ELSE IF is_duplicate_file(p.file_paths, file_path)
             THEN add_pdfs_loop(p, file_paths, k + 1, added_count,
                                Append(error_messages,
                                       <<basename(file_path), ERROR_DUPLICATE_FILE>>))
             ELSE IF a[1]
             THEN add_pdfs_loop([pdf_files |-> Append(p.pdf_files, file_path),
                                 file_paths |-> a[2]],
                                file_paths, k + 1, added_count + 1, error_messages)
             ELSE add_pdfs_loop(p, file_paths, k + 1, added_count, error_messages)

\* PDFManager.add_pdfs(file_paths): (added_count, error_messages)
add_pdfs(p, file_paths) ==
    IF file_paths = <<>> THEN [p |-> p, ret |-> <<0, <<>>>>]
    ELSE add_pdfs_loop(p, file_paths, 1, 0, <<>>)

\* PDFManager.remove_pdf(index), index counted from 0
remove_pdf(p, index) ==
    IF ~(0 <= index /\ index < Len(p.pdf_files))
    THEN [p |-> p, ret |-> FALSE]
    ELSE [p |-> [pdf_files |-> SubSeq(p.pdf_files, 1, index)
                                  \o SubSeq(p.pdf_files, index + 2, Len(p.pdf_files)),
                 file_paths |-> remove_file(p.file_paths, p.pdf_files[index + 1])[2]],
          ret |-> TRUE]

\* PDFManager.clear_all_pdfs
clear_all_pdfs(p) ==
    [pdf_files |-> <<>>, file_paths |-> clear_files(p.file_paths)]

(***************************************************************************)
(* State.                                                                  *)
(***************************************************************************)
VARIABLES
    regions,            \* RegionManager.regions, in dict order
    region_order,       \* RegionManager.region_order
    selected_region,    \* RegionManager.selected_region
    region_labels,      \* RegionManager.validator.region_labels
    items,              \* the canvas: id of each live region rectangle -> outline
    deleted,            \* the canvas: id -> number of canvas.delete calls naming it
    next_id,            \* the id the next region rectangle gets
    transformer,        \* CoordinateTransformer: [zoom, scale, offset_x, offset_y]
    pdf,                \* PDFManager: [loaded, scale, text_coords]
    resize_tool,        \* ResizeTool
    box_tool,           \* SelectionToolManager.box_tool
    current_tool,       \* SelectionToolManager.current_tool
    mode,               \* PDFExtractionApp.mode_var
    cursor,             \* the canvas cursor
    corner_indicators,  \* ResizeTool.corner_indicators
    button1_down,       \* the canvas got <Button-1> and not yet its <ButtonRelease-1>
    region_listbox,     \* PDFExtractionApp.region_listbox: its entries
    events,             \* number of events the application has handled
    pdf_files,          \* PDFManager.pdf_files
    file_paths,         \* PDFManager.validator.file_paths
    last_call           \* the latest conversion asked of the CoordinateTransformer

vars == <<regions, region_order, selected_region, region_labels, items, next_id, deleted,
          transformer, pdf, resize_tool, box_tool, current_tool, mode, cursor,
          corner_indicators, button1_down, region_listbox, events, pdf_files,
          file_paths, last_call>>

store_vars == <<regions, region_order, selected_region, region_labels, items, next_id,
                deleted>>
\* the tools, and the pointer that drives them
tool_vars == <<resize_tool, box_tool, current_tool, cursor, corner_indicators,
               button1_down>>

Store == [regions |-> regions, region_order |-> region_order,
          selected_region |-> selected_region, region_labels |-> region_labels,
          items |-> items, next_id |-> next_id, deleted |-> deleted]

SetStore(s) ==
    /\ s.next_id <= MaxItemId + 1
    /\ regions' = s.regions
    /\ region_order' = s.region_order
    /\ selected_region' = s.selected_region
    /\ region_labels' = s.region_labels
    /\ items' = s.items
    /\ deleted' = s.deleted
    /\ next_id' = s.next_id

\* what a ResizeTool handler leaves behind: r is [rt, s, cursor]
SetResizeTool(r) ==
    /\ resize_tool' = r.rt
    /\ SetStore(r.s)
    /\ cursor' = r.cursor

(***************************************************************************)
(* Inputs.                                                                 *)
(***************************************************************************)
\* boxes in document space handed to add_region and update_region_coords
Boxes == {RBox(0, 0, 40, 40), RBox(50, 30, 20, 10)}
\* pointer positions in canvas space
Points == {<<R(40), R(40)>>, <<R(70), R(40)>>, <<R(90), R(70)>>, <<R(-30), R(50)>>}
\* what the label dialog returns: None when cancelled
AppDialogLabels == {None, Some(LblA), Some(LblB), Some(LblBlank)}
\* offsets render_page computes from the sizes of the canvas and of the page
RenderOffsets == {<<R(20), R(0)>>}
\* the zoom levels reached by the mouse wheel
Scales == {R(DEFAULT_SCALE), Rat(11, 10)}
\* the files load_from_file is given
Files ==
    { FileMissing, FileGarbage, FileList,
      FileObject(<<>>, <<>>),
      FileObject(<<LblA, LblB>>,
                 [l \in {LblA, LblB} |->
                     IF l = LblA THEN Entry(RBox(0, 0, 40, 40))
                     ELSE Entry(RBox(50, 30, 20, 10))]),
      FileObject(<<LblB, LblA, LblB>>,
                 [l \in {LblA, LblB} |-> Entry(RBox(50, 30, 20, 10))]),
      FileObject(<<LblB, LblA, LblLong>>,
                 [l \in {LblA, LblB} |->
                     IF l = LblA THEN NoCoords ELSE Entry(RBox(0, 0, 40, 40))]),
      FileObject(<<LblBlank, LblA, LblLong>>,
                 [l \in {LblA, LblBlank} |->
                     IF l = LblA THEN Entry(RBox(0, 0, 40, 40))
                     ELSE Entry(<<R(0), R(0), R(40)>>)]),
      FileObject(<<LblA, LblB>>,
                 [l \in {LblA, LblB} |->
                     IF l = LblA THEN Entry(RBox(0, 0, 40, 40))
                     ELSE Entry(<<R(0), R(0), R(40)>>)]),
      FileObject(<<LblA, LblB>>,
                 [l \in {LblA, LblB} |->
                     IF l = LblA THEN NoCoords ELSE Entry(RBox(0, 0, 40, 40))]) }
\* the files the application is followed with
AppFiles ==
    { FileMissing,
      FileObject(<<LblA, LblB>>,
                 [l \in {LblA, LblB} |->
                     IF l = LblA THEN Entry(RBox(0, 0, 40, 40))
                     ELSE Entry(RBox(50, 30, 20, 10))]) }

(***************************************************************************)
(* Initial state: PDFExtractionApp.__init__                                *)
(***************************************************************************)
Init ==
    /\ regions = <<>>
    /\ region_order = <<>>
    /\ selected_region = None
    /\ region_labels = {}
    /\ items = <<>>
    /\ deleted = <<>>
    /\ next_id = 1
    /\ transformer = [zoom |-> R(DEFAULT_ZOOM), scale |-> R(DEFAULT_SCALE),
                      offset_x |-> R(0), offset_y |-> R(0)]
    /\ pdf = [loaded |-> FALSE, scale |-> R(DEFAULT_SCALE), text_coords |-> <<>>]
    /\ resize_tool = [is_resizing |-> FALSE, resize_region |-> None,
                      resize_corner |-> NoCorner, start_coords |-> None,
                      original_coords |-> None,
                      is_moving |-> FALSE, move_region |-> None,
                      move_start_coords |-> None, original_coords_move |-> None,
                      original_coords_move_pdf |-> None,
                      original_coords_move_canvas |-> None]
    /\ box_tool = [start_pos |-> None, temp_rect |-> None, is_drawing |-> FALSE]
    /\ current_tool = "word"
    /\ mode = "word"
    /\ cursor = ""
    /\ pdf_files = <<>>
    /\ file_paths = {}
    /\ last_call = [op |-> "none", t |-> transformer, arg |-> <<RZero, RZero>>,
                    raised |-> FALSE, value |-> <<RZero, RZero>>]
    /\ corner_indicators = <<>>
    /\ button1_down = FALSE
    /\ region_listbox = <<>>
    /\ events = 0

(***************************************************************************)
(* Calls of the RegionManager.                                             *)
(***************************************************************************)
AddRegion(label, coords) ==
    LET r == add_region(Store, label, coords)
    IN  /\ SetStore(r.s)
        /\ UNCHANGED <<transformer, pdf, tool_vars, mode, region_listbox>>

UpdateRegionLabel(old_label, new_label) ==
    LET r == update_region_label(Store, old_label, new_label)
    IN  /\ SetStore(r.s)
        /\ UNCHANGED <<transformer, pdf, tool_vars, mode, region_listbox>>

UpdateRegionCoords(label, coords) ==
    LET r == update_region_coords(Store, label, coords)
    IN  /\ SetStore(r.s)
        /\ UNCHANGED <<transformer, pdf, tool_vars, mode, region_listbox>>

RemoveRegion(label) ==
    LET r == remove_region(Store, label)
    IN  /\ SetStore(r.s)
        /\ UNCHANGED <<transformer, pdf, tool_vars, mode, region_listbox>>

MoveRegion(from_index, to_index) ==
    LET r == move_region(Store, from_index, to_index)
    IN  /\ SetStore(r.s)
        /\ UNCHANGED <<transformer, pdf, tool_vars, mode, region_listbox>>

SelectRegion(label) ==
    LET r == select_region(Store, label)
    IN  /\ SetStore(r.s)
        /\ UNCHANGED <<transformer, pdf, tool_vars, mode, region_listbox>>

ClearSelection ==
    /\ SetStore(clear_selection(Store))
    /\ UNCHANGED <<transformer, pdf, tool_vars, mode, region_listbox>>

ClearAllRegions ==
    /\ SetStore(clear_all_regions(Store))
    /\ UNCHANGED <<transformer, pdf, tool_vars, mode, region_listbox>>

LoadFromFile(data) ==
    LET r == load_from_file(Store, data)
    IN  /\ SetStore(r.s)
        /\ UNCHANGED <<transformer, pdf, tool_vars, mode, region_listbox>>

(***************************************************************************)
(* Event handlers of main.py.  (x, y) is the pointer in canvas space, as   *)
(* canvasx/canvasy give it; dialog_label is what the label dialog returns  *)
(* if the handler opens it.                                                *)
(***************************************************************************)
\* refresh_region_list: the listbox is emptied and gets the entry
\* "{i+1}. {label}" for each label of region_order, here [number, label]
refresh_region_list(s) ==
    [i \in DOMAIN s.region_order |-> [number |-> i, label |-> s.region_order[i]]]

\* a label the handlers pass on: "if label:" drops None and ""
Truthy(dialog_label) == dialog_label # None /\ dialog_label[1] # <<>>

on_mouse_press(x, y, dialog_label) ==
    LET st == set_tool(box_tool, current_tool, mode)
        word_data == find_word_at_position(pdf.text_coords, transformer, x, y)
        w == create_word_region(Store, transformer, word_data[1][1], dialog_label[1])
    IN  /\ ~button1_down
        \* the label dialog grabs the pointer: the release may never reach the canvas
        /\ button1_down' \in IF mode = "word" /\ word_data # None THEN BOOLEAN ELSE {TRUE}
        /\ UNCHANGED <<transformer, pdf, mode, corner_indicators>>
        /\ IF mode = "resize"
           THEN /\ SetResizeTool(resize_handle_mouse_press(resize_tool, Store, transformer,
                                                           cursor, x, y))
                /\ UNCHANGED <<box_tool, current_tool, region_listbox>>
           ELSE /\ current_tool' = st.current_tool
                /\ UNCHANGED <<resize_tool, cursor>>
                /\ IF mode = "box"
                   THEN /\ box_tool' = box_handle_mouse_press(st.bt, transformer, x, y)
                        /\ UNCHANGED <<store_vars, region_listbox>>
                   ELSE /\ box_tool' = st.bt
                        /\ IF word_data # None /\ Truthy(dialog_label)
                           THEN /\ SetStore(w.s)
                                /\ region_listbox' = IF w.ret[1] THEN refresh_region_list(w.s)
                                                     ELSE region_listbox
                           ELSE UNCHANGED <<store_vars, region_listbox>>

on_mouse_drag(x, y) ==
    /\ button1_down
    /\ UNCHANGED <<transformer, pdf, mode, current_tool, corner_indicators, button1_down,
                   region_listbox>>
    /\ IF mode = "resize"
       THEN /\ SetResizeTool(WithCursor(resize_handle_mouse_drag(resize_tool, Store,
                                                                 transformer, x, y),
                                        cursor))
            /\ UNCHANGED box_tool
       ELSE /\ box_tool' = IF current_tool = "box"
                           THEN box_handle_mouse_drag(box_tool, transformer, x, y)
                           ELSE box_tool
            /\ UNCHANGED <<resize_tool, cursor, store_vars>>

on_mouse_release(x, y, dialog_label) ==
    LET b == box_handle_mouse_release(box_tool, transformer, x, y)
        a == add_region(Store, dialog_label[1], b.coords)
    IN  /\ button1_down
        /\ button1_down' = FALSE
        /\ UNCHANGED <<transformer, pdf, mode, current_tool, corner_indicators>>
        /\ IF mode = "resize"
           THEN /\ SetResizeTool(WithCursor(resize_handle_mouse_release(resize_tool, Store),
                                            ""))
                /\ UNCHANGED <<box_tool, region_listbox>>
           ELSE IF mode = "box" /\ current_tool = "box"
           THEN /\ box_tool' = b.bt
                /\ IF b.handled /\ Truthy(dialog_label)
                   THEN /\ SetStore(a.s)
                        /\ region_listbox' = IF a.ret[1] THEN refresh_region_list(a.s)
                                             ELSE region_listbox
                   ELSE UNCHANGED <<store_vars, region_listbox>>
                /\ UNCHANGED <<resize_tool, cursor>>
           ELSE UNCHANGED <<resize_tool, box_tool, cursor, store_vars, region_listbox>>

\* on_mouse_hover drawing the indicators without clearing the old ones
on_mouse_hover_piles_up(x, y) ==
    LET h == resize_handle_mouse_move(Store, transformer, x, y)
    IN  /\ ~button1_down
        /\ UNCHANGED <<transformer, pdf, mode, current_tool, resize_tool, box_tool,
                       store_vars, button1_down, region_listbox>>
        /\ IF mode = "resize"
           THEN /\ cursor' = h.cursor
                /\ corner_indicators' = corner_indicators \o h.corner_indicators
           ELSE UNCHANGED <<cursor, corner_indicators>>

on_mouse_hover(x, y) ==
    LET h == resize_handle_mouse_move(Store, transformer, x, y)
    IN  /\ ~button1_down
        /\ UNCHANGED <<transformer, pdf, mode, current_tool, resize_tool, box_tool,
                       store_vars, button1_down, region_listbox>>
        /\ IF mode = "resize"
           THEN cursor' = h.cursor /\ corner_indicators' = h.corner_indicators
           ELSE UNCHANGED <<cursor, corner_indicators>>

\* the mode radio buttons write mode_var and nothing else
SetMode(m) ==
    /\ mode' = m
    /\ UNCHANGED <<transformer, pdf, tool_vars, store_vars, region_listbox>>

CancelResize ==
    /\ SetResizeTool(WithCursor(cancel_resize(resize_tool, Store), cursor))
    /\ UNCHANGED <<transformer, pdf, mode, box_tool, current_tool, corner_indicators,
                   button1_down, region_listbox>>

\* PDFManager.render_page followed by redraw_all_regions: the canvas is
\* emptied, the transformer set and every region drawn again
RenderAndRedraw(scale, offset) ==
    /\ transformer' = [zoom |-> R(DEFAULT_ZOOM), scale |-> scale,
                       offset_x |-> offset[1], offset_y |-> offset[2]]
    /\ pdf' = [loaded |-> TRUE, scale |-> scale,
               text_coords |-> build_text_coords(R(DEFAULT_ZOOM), scale)]
    /\ SetStore(redraw_all_regions([Store EXCEPT
                                        !.items = <<>>,
                                        !.deleted = DeleteCount(deleted, DOMAIN items)]))

load_selected_pdf(offset) ==
    /\ RenderAndRedraw(R(DEFAULT_SCALE), offset)
    /\ UNCHANGED <<tool_vars, mode, region_listbox>>

\* on_mousewheel with Ctrl held: zoom_in or zoom_out, then render if a page is loaded
on_mousewheel(up, offset) ==
    LET scale == IF up THEN RMul(pdf.scale, Rat(11, 10)) ELSE RDiv(pdf.scale, Rat(11, 10))
    IN  /\ scale \in Scales
        /\ IF pdf.loaded
           THEN RenderAndRedraw(scale, offset)
           ELSE pdf' = [pdf EXCEPT !.scale = scale] /\ UNCHANGED <<transformer, store_vars>>
        /\ UNCHANGED <<tool_vars, mode, region_listbox>>

(***************************************************************************)
(* Handlers of the region list.  selection is what region_listbox          *)
(* .curselection() returns: <<>> or <<index>>, index counting from 0.       *)
(* region_order[index] raises IndexError when the index is past its end;   *)
(* the handler then ends there.                                            *)
(***************************************************************************)
on_region_select(selection) ==
    LET index == selection[1]
        label == region_order[index + 1]
        r == select_region(Store, label)
    IN  /\ UNCHANGED <<transformer, pdf, mode, region_listbox, resize_tool, box_tool,
                       current_tool, cursor, button1_down>>
        /\ IF selection = <<>> \/ index >= Len(region_order)
           THEN UNCHANGED <<store_vars, corner_indicators>>
           ELSE /\ SetStore(r.s)
                /\ corner_indicators' = draw_corner_indicators(r.s, transformer, label)

on_region_double_click(selection, dialog_label) ==
    LET index == selection[1]
        old_label == region_order[index + 1]
        r == update_region_label(Store, old_label, dialog_label[1])
    IN  /\ UNCHANGED <<transformer, pdf, mode, tool_vars>>
        /\ IF \/ selection = <<>> \/ index >= Len(region_order)
              \/ ~Truthy(dialog_label) \/ dialog_label[1] = old_label
           THEN UNCHANGED <<store_vars, region_listbox>>
           ELSE /\ SetStore(r.s)
                /\ region_listbox' = IF r.ret[1] THEN refresh_region_list(r.s)
                                     ELSE region_listbox

move_region_up(selection) ==
    LET index == selection[1]
        r == move_region(Store, index, index - 1)
    IN  /\ UNCHANGED <<transformer, pdf, mode, tool_vars>>
        /\ IF selection # <<>> /\ index > 0
           THEN /\ SetStore(r.s)
                /\ region_listbox' = IF r.ret[1] THEN refresh_region_list(r.s)
                                     ELSE region_listbox
           ELSE UNCHANGED <<store_vars, region_listbox>>

move_region_down(selection) ==
    LET index == selection[1]
        r == move_region(Store, index, index + 1)
    IN  /\ UNCHANGED <<transformer, pdf, mode, tool_vars>>
        /\ IF selection # <<>> /\ index < Len(region_order) - 1
           THEN /\ SetStore(r.s)
                /\ region_listbox' = IF r.ret[1] THEN refresh_region_list(r.s)
                                     ELSE region_listbox
           ELSE UNCHANGED <<store_vars, region_listbox>>

\* confirmed is the answer to "Delete region '{label}'?"
delete_region(selection, confirmed) ==
    LET index == selection[1]
        label == region_order[index + 1]
        r == remove_region(Store, label)
    IN  /\ UNCHANGED <<transformer, pdf, mode, tool_vars>>
        /\ IF selection = <<>> \/ index >= Len(region_order) \/ ~confirmed
           THEN UNCHANGED <<store_vars, region_listbox>>
           ELSE /\ SetStore(r.s)
                /\ region_listbox' = IF r.ret[1] THEN refresh_region_list(r.s)
                                     ELSE region_listbox

\* data is the content of regions.json
load_config(data) ==
    LET r == load_from_file(Store, data)
    IN  /\ SetStore(r.s)
        /\ region_listbox' = IF r.ret[1] THEN refresh_region_list(r.s) ELSE region_listbox
        /\ UNCHANGED <<transformer, pdf, mode, tool_vars>>

(***************************************************************************)
(* Spec: the RegionManager under any sequence of calls.                    *)
(***************************************************************************)
Call(A) == A /\ UNCHANGED <<events, pdf_files, file_paths, last_call>>

Next ==
    \/ \E l \in Labels, c \in Boxes : Call(AddRegion(l, c))
    \/ \E o \in Labels, n \in Labels : Call(UpdateRegionLabel(o, n))
    \/ \E l \in Labels, c \in Boxes : Call(UpdateRegionCoords(l, c))
    \/ \E l \in Labels : Call(RemoveRegion(l))
    \/ \E i \in -1..Len(region_order), j \in -1..Len(region_order) : Call(MoveRegion(i, j))
    \/ \E l \in Labels : Call(SelectRegion(l))
    \/ Call(ClearSelection)
    \/ Call(ClearAllRegions)
    \/ \E d \in Files : Call(LoadFromFile(d))

Spec == Init /\ [][Next]_vars

(***************************************************************************)
(* SpecApp: the application under any sequence of at most MaxEvents        *)
(* events: pointer events, mode changes, page loads and zooms, and the     *)
(* calls that write coordinates.                                           *)
(***************************************************************************)
Event(A) ==
    /\ events < MaxEvents /\ events' = events + 1 /\ A
    /\ UNCHANGED <<pdf_files, file_paths, last_call>>

NextApp ==
    \/ \E p \in Points, dl \in AppDialogLabels : Event(on_mouse_press(p[1], p[2], dl))
    \/ \E p \in Points : Event(on_mouse_drag(p[1], p[2]))
    \/ \E p \in Points, dl \in AppDialogLabels : Event(on_mouse_release(p[1], p[2], dl))
    \/ \E p \in Points : Event(on_mouse_hover(p[1], p[2]))
    \/ \E m \in {"word", "box", "resize"} : Event(SetMode(m))
    \/ Event(CancelResize)
    \/ \E o \in RenderOffsets : Event(load_selected_pdf(o))
    \/ \E up \in BOOLEAN, o \in RenderOffsets : Event(on_mousewheel(up, o))
    \/ \E l \in {LblA, LblB}, c \in Boxes : Event(UpdateRegionCoords(l, c))
    \/ \E l \in {LblA, LblB} : Event(RemoveRegion(l))
    \/ \E d \in AppFiles : Event(LoadFromFile(d))

SpecApp == Init /\ [][NextApp]_vars

(***************************************************************************)
(* SpecUi: the application under any sequence of at most MaxEvents events  *)
(* of the canvas, the mode buttons and the region list with its buttons.   *)
(* The user selects any entry the listbox shows, or none.                  *)
(***************************************************************************)
NextUi ==
    \/ \E p \in Points, dl \in AppDialogLabels : Event(on_mouse_press(p[1], p[2], dl))
    \/ \E p \in Points : Event(on_mouse_drag(p[1], p[2]))
    \/ \E p \in Points, dl \in AppDialogLabels : Event(on_mouse_release(p[1], p[2], dl))
    \/ \E m \in {"word", "box", "resize"} : Event(SetMode(m))
    \/ \E o \in RenderOffsets : Event(load_selected_pdf(o))
    \/ \E i \in 0..Len(region_listbox) :
          Event(on_region_select(IF i = 0 THEN <<>> ELSE <<i - 1>>))
    \/ \E i \in 0..Len(region_listbox), dl \in AppDialogLabels :
          Event(on_region_double_click(IF i = 0 THEN <<>> ELSE <<i - 1>>, dl))
    \/ \E i \in 0..Len(region_listbox) :
          Event(move_region_up(IF i = 0 THEN <<>> ELSE <<i - 1>>))
    \/ \E i \in 0..Len(region_listbox) :
          Event(move_region_down(IF i = 0 THEN <<>> ELSE <<i - 1>>))
    \/ \E i \in 0..Len(region_listbox), confirmed \in BOOLEAN :
          Event(delete_region(IF i = 0 THEN <<>> ELSE <<i - 1>>, confirmed))
    \/ \E d \in Files : Event(load_config(d))

SpecUi == Init /\ [][NextUi]_vars

(***************************************************************************)
(* SpecPdf: the PDF list under any sequence of add_pdfs, remove_pdf and    *)
(* clear_all_pdfs.  These calls touch nothing but PDFManager.pdf_files and *)
(* its validator's file_paths.                                             *)
(***************************************************************************)
PdfList == [pdf_files |-> pdf_files, file_paths |-> file_paths]

SetPdfList(p) ==
    /\ pdf_files' = p.pdf_files
    /\ file_paths' = p.file_paths
    /\ UNCHANGED <<store_vars, transformer, pdf, tool_vars, mode, region_listbox, events,
                   last_call>>

AddPdfs(paths) == SetPdfList(add_pdfs(PdfList, paths).p)

RemovePdf(index) == SetPdfList(remove_pdf(PdfList, index).p)

ClearAllPdfs == SetPdfList(clear_all_pdfs(PdfList))

NextPdf ==
    \/ \E paths \in {<<>>} \cup {<<f>> : f \in PathTexts}
                      \cup {<<f, g>> : f \in PathTexts, g \in PathTexts} : AddPdfs(paths)
    \/ \E index \in -1..Len(pdf_files) : RemovePdf(index)
    \/ ClearAllPdfs

SpecPdf == Init /\ [][NextPdf]_vars

(***************************************************************************)
(* SpecTransform: the CoordinateTransformer under any sequence of          *)
(* set_transform_params and conversion calls; last_call keeps the          *)
(* transform state, the argument and the outcome of the latest conversion. *)
(***************************************************************************)
TransformInputs ==
    [zooms |-> {R(0), R(DEFAULT_ZOOM)},
     scales |-> {R(0), R(DEFAULT_SCALE), Rat(3, 2)},
     offsets |-> {<<R(0), R(0)>>, <<R(20), R(-5)>>},
     points |-> {<<R(0), R(0)>>, <<R(3), R(4)>>, <<R(-6), R(9)>>, <<Rat(1, 3), R(20)>>}]

SetTransformParams(zoom, scale, offset_x, offset_y) ==
    /\ transformer' = set_transform_params(zoom, scale, offset_x, offset_y)
    /\ UNCHANGED <<store_vars, pdf, tool_vars, mode, region_listbox, events, pdf_files,
                   file_paths, last_call>>

Conversion(op, p, outcome) ==
    /\ last_call' = [op |-> op, t |-> transformer, arg |-> p,
                     raised |-> outcome.raised, value |-> outcome.value]
    /\ UNCHANGED <<store_vars, transformer, pdf, tool_vars, mode, region_listbox, events,
                   pdf_files, file_paths>>

PdfToImageCoords(p) ==
    Conversion("pdf_to_image_coords", p,
               Outcome(FALSE, pdf_to_image_coords(transformer, p[1], p[2])))

ImageToPdfCoords(p) ==
    Conversion("image_to_pdf_coords", p,
               Outcome(FALSE, image_to_pdf_coords(transformer, p[1], p[2])))

CanvasToImageCoords(p) ==
    Conversion("canvas_to_image_coords", p,
               Outcome(FALSE, canvas_to_image_coords(transformer, p[1], p[2])))

ImageToCanvasCoords(p) ==
    Conversion("image_to_canvas_coords", p,
               Outcome(FALSE, image_to_canvas_coords(transformer, p[1], p[2])))

CanvasToPdfCoords(p) ==
    Conversion("canvas_to_pdf_coords", p,
               Outcome(FALSE, canvas_to_pdf_coords(transformer, p[1], p[2])))

PdfToCanvasCoords(p) ==
    Conversion("pdf_to_canvas_coords", p,
               Outcome(FALSE, pdf_to_canvas_coords(transformer, p[1], p[2])))

CanvasToPdfDelta(p) ==
    Conversion("canvas_to_pdf_delta", p, canvas_to_pdf_delta(transformer, p[1], p[2]))

NextTransform ==
    \/ \E zoom \in TransformInputs.zooms, scale \in TransformInputs.scales,
          o \in TransformInputs.offsets :
          SetTransformParams(zoom, scale, o[1], o[2])
    \/ \E p \in TransformInputs.points : PdfToImageCoords(p)
    \/ \E p \in TransformInputs.points : ImageToPdfCoords(p)
    \/ \E p \in TransformInputs.points : CanvasToImageCoords(p)
    \/ \E p \in TransformInputs.points : ImageToCanvasCoords(p)
    \/ \E p \in TransformInputs.points : CanvasToPdfCoords(p)
    \/ \E p \in TransformInputs.points : PdfToCanvasCoords(p)
    \/ \E p \in TransformInputs.points : CanvasToPdfDelta(p)

SpecTransform == Init /\ [][NextTransform]_vars

(***************************************************************************)
(* The claims.                                                             *)
(***************************************************************************)
\* C1: after any sequence of add_region, remove_region, update_region_label,
\* move_region, clear_all_regions and load_from_file calls, failed or not,
\* region_order holds no label twice and the set of its labels is the key set
\* of regions.
C1_OrderIsKeys ==
    /\ \A i, j \in DOMAIN region_order : region_order[i] = region_order[j] => i = j
    /\ {region_order[i] : i \in DOMAIN region_order} = Keys(regions)

\* two regions whose place in region_order is no longer the one of their creation
C1_Witness ==
    /\ Len(regions) = 2
    /\ region_order = <<regions[2].label, regions[1].label>>

\* C2: selected_region is None or a key of regions in every reachable state,
\* and select_region of an absent label returns False and changes nothing.
C2_SelectedIsKey ==
    /\ selected_region = None \/ selected_region[1] \in Keys(regions)
    /\ \A l \in Labels :
          l \notin Keys(regions) =>
              select_region(Store, l) = [s |-> Store, ret |-> RetBool(FALSE)]

\* a region is selected while another label is absent
C2_Witness ==
    /\ selected_region = Some(LblB)
    /\ LblA \notin Keys(regions)
    /\ select_region(Store, LblA).s.selected_region = Some(LblB)

\* C3: add_region with a label that is empty, only whitespace, longer than
\* 100 characters or already present returns failure with the error of that
\* cause and leaves regions, region_order, selected_region, the validator's
\* labels and the canvas as they were; a second add_region("A", box2) fails
\* and A keeps its box.
C3_AddRegionRejects ==
    \A l \in Labels, c \in Boxes :
        LET r == add_region(Store, l, c)
            blank == l # <<>> /\ \A i \in DOMAIN l : l[i] \in {" ", "\t", "\n", "\r"}
            fails(msg) == r = [s |-> Store, ret |-> Ret(FALSE, msg), raised |-> FALSE]
        IN  /\ l = <<>> => fails("Label cannot be empty")
            /\ blank => fails("Label cannot be only whitespace")
            /\ (~blank /\ Len(l) > 100) => fails("Label too long (max 100 characters)")
            /\ l \in Keys(regions) => fails("Label already exists")

\* region A holds its first box, is selected, and a second add_region("A", box2) failed
C3_Witness ==
    /\ LblA \in Keys(regions)
    /\ Region(regions, LblA).coords = RBox(0, 0, 40, 40)
    /\ selected_region = Some(LblA)
    /\ ~add_region(Store, LblA, RBox(50, 30, 20, 10)).ret[1]

C5_RenameAtomic ==
    \A o \in Labels, n \in Labels :
        LET r == update_region_label(Store, o, n)
            valid == /\ \E i \in DOMAIN n : n[i] \notin {" ", "\t", "\n", "\r"}
                     /\ Len(n) <= 100
        IN  /\ (o \notin Keys(regions) \/ ~valid \/ (n # o /\ n \in Keys(regions)))
                   => ~r.ret[1]
            /\ ~r.ret[1] => r.s = Store

\* two regions, one selected, and renaming one to the other's label failed
C5_Witness ==
    /\ Keys(regions) = {LblA, LblB}
    /\ selected_region = Some(LblA)
    /\ ~update_region_label(Store, LblA, LblB).ret[1]
    /\ ~update_region_label(Store, LblA, LblBlank).ret[1]

\* C6 as amended: when update_region_label(old, new) succeeds, new has in
\* region_order the index old had, old (if it is not new itself) is no longer
\* a key of regions nor in region_order, the region keeps its coords and its
\* rectangle, selected_region becomes new if and only if it was old, and every
\* other region and every other position of region_order is unchanged.
C6_RenameKeepsPlace ==
    \A o \in Labels, n \in Labels :
        LET r == update_region_label(Store, o, n)
        IN  r.ret[1] =>
                /\ \E i \in DOMAIN region_order :
                      /\ region_order[i] = o
                      /\ r.s.region_order = [region_order EXCEPT ![i] = n]
                /\ n # o => /\ o \notin Keys(r.s.regions)
                            /\ \A i \in DOMAIN r.s.region_order : r.s.region_order[i] # o
                /\ Keys(r.s.regions) = (Keys(regions) \ {o}) \cup {n}
                /\ Region(r.s.regions, n).coords = Region(regions, o).coords
                /\ Region(r.s.regions, n).rect_id = Region(regions, o).rect_id
                /\ r.s.items = items
                /\ r.s.selected_region =
                       IF selected_region = Some(o) THEN Some(n) ELSE selected_region
                /\ \A k \in Keys(regions) \ {o} : Region(r.s.regions, k) = Region(regions, k)

\* the region drawn first was renamed: it is the last key of regions, still
\* first in region_order, still selected and still owns rectangle 1
C6_Witness ==
    /\ Len(regions) = 2
    /\ regions[2].label = LblB
    /\ regions[2].rect_id = 1
    /\ region_order[1] = LblB
    /\ selected_region = Some(LblB)
    /\ LblA \notin Keys(regions)

\* C6 as stated: after every successful update_region_label(old, new), old is
\* no longer a key of regions or an element of region_order (with the rest of
\* C6: index, coords, rectangle, selection and the other regions kept).
C6_OldIsGone ==
    \A o \in Labels, n \in Labels :
        LET r == update_region_label(Store, o, n)
        IN  r.ret[1] =>
                /\ \E i \in DOMAIN region_order :
                      /\ region_order[i] = o
                      /\ r.s.region_order = [region_order EXCEPT ![i] = n]
                /\ o \notin Keys(r.s.regions)
                /\ \A i \in DOMAIN r.s.region_order : r.s.region_order[i] # o
                /\ Region(r.s.regions, n).coords = Region(regions, o).coords
                /\ Region(r.s.regions, n).rect_id = Region(regions, o).rect_id
                /\ r.s.selected_region =
                       IF selected_region = Some(o) THEN Some(n) ELSE selected_region
                /\ \A k \in Keys(regions) \ {o} : Region(r.s.regions, k) = Region(regions, k)

\* C7: remove_region of a present label returns True, deletes the label from
\* regions, region_order and the validator's labels, sets selected_region to
\* None if and only if it was that label, keeps every other region and the
\* relative order of the other labels, and the label can be added again; of
\* an absent label it returns False and changes nothing.
C7_RemoveRegion ==
    \A l \in Labels :
        LET r == remove_region(Store, l)
        IN  IF l \in Keys(regions)
            THEN /\ r.ret = RetBool(TRUE)
                 /\ Keys(r.s.regions) = Keys(regions) \ {l}
                 /\ r.s.region_order = SelectSeq(region_order, LAMBDA k : k # l)
                 /\ r.s.region_labels = region_labels \ {l}
                 /\ l \notin r.s.region_labels
                 /\ r.s.selected_region =
                        IF selected_region = Some(l) THEN None ELSE selected_region
                 /\ \A k \in Keys(regions) \ {l} :
                        Region(r.s.regions, k) = Region(regions, k)
                 /\ \A c \in Boxes :
                        /\ add_region(r.s, l, c).ret = Ret(TRUE, "")
                        /\ l \in Keys(add_region(r.s, l, c).s.regions)
            ELSE r = [s |-> Store, ret |-> RetBool(FALSE)]

\* a rectangle is gone from the canvas, and of the two regions left the
\* selected one is removed and added again
C7_Witness ==
    /\ 1 \notin DOMAIN items
    /\ region_order = <<LblB, LblA>>
    /\ selected_region = Some(LblB)
    /\ remove_region(Store, LblB).s.region_order = <<LblA>>
    /\ remove_region(Store, LblB).s.selected_region = None
    /\ add_region(remove_region(Store, LblB).s, LblB, RBox(0, 0, 40, 40)).ret[1]

\* C8: every stored region has x0 <= x1 and y0 <= y1 in every state reached
\* by add_region, update_region_coords, resize and move drags, cancel_resize
\* and load_from_file, whatever boxes they are given, and a write stores
\* exactly (min(x0,x1), min(y0,y1), max(x0,x1), max(y0,y1)) of its box.
C8_CoordsNormalised ==
    LET stored(w, c) == /\ RLe(w[1], w[3]) /\ RLe(w[2], w[4])
                        /\ {w[1], w[3]} = {c[1], c[3]}
                        /\ {w[2], w[4]} = {c[2], c[4]}
    IN  /\ \A i \in DOMAIN regions :
              /\ RLe(regions[i].coords[1], regions[i].coords[3])
              /\ RLe(regions[i].coords[2], regions[i].coords[4])
        /\ \A l \in {LblA, LblB}, c \in Boxes :
              IF l \in Keys(regions)
              THEN stored(Region(update_region_coords(Store, l, c).s.regions, l).coords, c)
              ELSE stored(Region(add_region(Store, l, c).s.regions, l).coords, c)

\* a resize drag pulled the bottom-right corner past the top-left one: the
\* old x0 is stored as x1
C8_Witness ==
    /\ resize_tool.is_resizing
    /\ resize_tool.resize_corner = "bottom-right"
    /\ resize_tool.resize_region[1] \in Keys(regions)
    /\ Region(regions, resize_tool.resize_region[1]).coords[3] =
           resize_tool.original_coords[1]
    /\ Region(regions, resize_tool.resize_region[1]).coords[1] #
           resize_tool.original_coords[1]

\* C9: in every state reached by press, drag, release, hover and mode-change
\* events at most one interaction is active: no two of ResizeTool.is_resizing,
\* ResizeTool.is_moving and BoxSelectionTool.is_drawing are true together.
C9_OneInteraction ==
    /\ ~(resize_tool.is_resizing /\ resize_tool.is_moving)
    /\ ~(resize_tool.is_resizing /\ box_tool.is_drawing)
    /\ ~(resize_tool.is_moving /\ box_tool.is_drawing)

\* C10: right after any release event the application handles, whatever the
\* mode and whatever came before, the interaction state is Idle: not
\* resizing, not moving, not drawing a box.
C10_ReleaseEndsInteraction ==
    [][(\E p \in Points, dl \in AppDialogLabels :
            Event(on_mouse_release(p[1], p[2], dl)))
        => /\ ~resize_tool'.is_resizing
           /\ ~resize_tool'.is_moving
           /\ ~box_tool'.is_drawing]_vars

\* C11: on a press in resize mode (the mode is "resize" and the button is
\* up) a corner match has priority over containment across all regions.  If
\* the press point is within 20 px in both axes, in canvas space, of a
\* corner of some region, the tool is resizing such a region afterwards, by
\* the first of its corners in the
\* order top-left, top-right, bottom-left, bottom-right that is that near,
\* with original_coords the region's current coords, also when another
\* region's box contains the point, and no move is started.  A move is
\* started only when no corner of any region is that near and the box of the
\* region moved contains the point, its boundary included.
C11_CornerBeforeContainment ==
    LET corner(b, k) == <<IF k \in {1, 3} THEN b[1][1] ELSE b[2][1],
                          IF k \in {1, 2} THEN b[1][2] ELSE b[2][2]>>
        within(a, b) == \/ (a[1] * b[2] <= b[1] * a[2]) /\ (b[1] * a[2] - a[1] * b[2]
                               <= RESIZE_CORNER_THRESHOLD * a[2] * b[2])
                        \/ (b[1] * a[2] <= a[1] * b[2]) /\ (a[1] * b[2] - b[1] * a[2]
                               <= RESIZE_CORNER_THRESHOLD * a[2] * b[2])
        le(a, b) == a[1] * b[2] <= b[1] * a[2]
        \* near[i][k]: corner k of region i is near the point; inside[i]: the
        \* box of region i contains it; after: the tool after the press
        post(after, near, inside) ==
            /\ (\E i \in DOMAIN regions, k \in 1..4 : near[i][k])
               => /\ after.is_resizing
                  /\ after.is_moving = resize_tool.is_moving
                  /\ \E i \in DOMAIN regions, k \in 1..4 :
                        /\ near[i][k]
                        /\ \A j \in 1..(k - 1) : ~near[i][j]
                        /\ after.resize_region = Some(regions[i].label)
                        /\ after.resize_corner = RESIZE_CORNERS[k]
                        /\ after.original_coords = regions[i].coords
            /\ (after.is_moving /\ ~resize_tool.is_moving)
               => /\ \A i \in DOMAIN regions, k \in 1..4 : ~near[i][k]
                  /\ \E i \in DOMAIN regions :
                        /\ inside[i]
                        /\ after.move_region = Some(regions[i].label)
        \* box[i]: the box of region i in canvas space
        all(box) ==
            \A p \in Points :
                post(resize_handle_mouse_press(resize_tool, Store, transformer, cursor,
                                               p[1], p[2]).rt,
                     [i \in DOMAIN regions |-> [k \in 1..4 |->
                         /\ within(p[1], corner(box[i], k)[1])
                         /\ within(p[2], corner(box[i], k)[2])]],
                     [i \in DOMAIN regions |->
                         /\ le(box[i][1][1], p[1]) /\ le(p[1], box[i][2][1])
                         /\ le(box[i][1][2], p[2]) /\ le(p[2], box[i][2][2])])
    IN  (mode = "resize" /\ ~button1_down)
        => all([i \in DOMAIN regions |->
                   <<pdf_to_canvas_coords(transformer, regions[i].coords[1],
                                          regions[i].coords[2]),
                     pdf_to_canvas_coords(transformer, regions[i].coords[3],
                                          regions[i].coords[4])>>])

\* a press near the top-left corner of one region, at a point inside the box
\* of another region that comes first in the store, has started a resize of
\* the former
C11_Witness ==
    /\ mode = "resize"
    /\ button1_down
    /\ resize_tool.is_resizing
    /\ ~resize_tool.is_moving
    /\ resize_tool.resize_corner = "top-left"
    /\ resize_tool.start_coords = <<R(40), R(40)>>
    /\ \E i \in DOMAIN regions, j \in DOMAIN regions :
          /\ i < j
          /\ resize_tool.resize_region = Some(regions[j].label)
          /\ regions[j].coords = resize_tool.original_coords
          /\ ContainsCanvasPoint(transformer, regions[i], R(40), R(40))
          /\ check_corner_proximity(Store, transformer, R(40), R(40), regions[i].label)
                 = NoCorner

\* C12: while the tool is resizing corner c of a region of the store, with
\* the captured original_coords o, a drag handled by the tool to a pointer at
\* (px, py) in document space leaves the region with the normalised box of
\* (px, py) and the corner of o opposite to c: bottom-right (ox0, oy0, px, py),
\* top-left (px, py, ox1, oy1), top-right (ox0, py, px, oy1), bottom-left
\* (px, oy0, ox1, py).  A drag that follows another one gives what it gives
\* alone.  Region (0, 0, 10, 10) dragged by bottom-right to (15, 20) becomes
\* (0, 0, 15, 20) and dragged on to (-5, -5) becomes (-5, -5, 0, 0).
C12_ResizeFromOriginal ==
    LET lo(a, b) == IF a[1] * b[2] <= b[1] * a[2] THEN a ELSE b
        hi(a, b) == IF a[1] * b[2] <= b[1] * a[2] THEN b ELSE a
        norm(b) == <<lo(b[1], b[3]), lo(b[2], b[4]), hi(b[1], b[3]), hi(b[2], b[4])>>
        expected(c, o, q) ==
            CASE c = "bottom-right" -> norm(<<o[1], o[2], q[1], q[2]>>)
              [] c = "top-left" -> norm(<<q[1], q[2], o[3], o[4]>>)
              [] c = "top-right" -> norm(<<o[1], q[2], q[1], o[4]>>)
              [] c = "bottom-left" -> norm(<<q[1], o[2], o[3], q[2]>>)
        drag(rt, s, pt) == resize_handle_mouse_drag(rt, s, transformer, pt[1], pt[2])
        at(x, y) == pdf_to_canvas_coords(transformer, R(x), R(y))
        \* once[p]: the tool and the store after one drag to p
        all(once) ==
            \A p \in Points :
                /\ Region(once[p].s.regions, resize_tool.resize_region[1]).coords
                     = expected(resize_tool.resize_corner, resize_tool.original_coords,
                                canvas_to_pdf_coords(transformer, p[1], p[2]))
                /\ once[p].rt = resize_tool
                /\ \A p2 \in Points : drag(once[p].rt, once[p].s, p2).s = once[p2].s
        example(r0) ==
            /\ Region(drag(r0.rt, r0.s, at(15, 20)).s.regions, LblA).coords
                 = RBox(0, 0, 15, 20)
            /\ Region(drag(r0.rt, drag(r0.rt, r0.s, at(15, 20)).s, at(-5, -5)).s.regions,
                      LblA).coords = RBox(-5, -5, 0, 0)
    IN  /\ (resize_tool.is_resizing /\ resize_tool.resize_region # None
                /\ resize_tool.resize_region[1] \in Keys(regions))
           => all([p \in Points |-> drag(resize_tool, Store, p)])
        /\ regions = <<>>
           => example(start_resize(resize_tool,
                                   add_region(Store, LblA, RBox(0, 0, 10, 10)).s,
                                   LblA, "bottom-right", R(0), R(0)))

\* a resize by the top-left corner has been dragged: the region no longer
\* has the coords captured at the press, and it has those the latest pointer
\* position gives with the captured bottom-right corner
C12_Witness ==
    /\ resize_tool.is_resizing
    /\ resize_tool.resize_corner = "top-left"
    /\ resize_tool.resize_region[1] \in Keys(regions)
    /\ Region(regions, resize_tool.resize_region[1]).coords # resize_tool.original_coords
    /\ \E p \in Points :
          LET q == canvas_to_pdf_coords(transformer, p[1], p[2])
          IN  Region(regions, resize_tool.resize_region[1]).coords
                = normalize_rect(q[1], q[2], resize_tool.original_coords[3],
                                 resize_tool.original_coords[4])

\* C13: a move is not accumulated over its drags.  While the tool is moving
\* a region of the store and the transform is the one of the press, a drag
\* to a pointer position leaves the region with the box captured at the
\* press shifted by the document-space length of (pointer - anchor), whatever
\* drags came before: a drag after another drag gives what it gives alone,
\* and a drag back to the anchor gives the box captured at the press.
C13_MoveFromCaptured ==
    LET rt == resize_tool
        o == rt.original_coords_move_pdf
        f == RMul(transformer.zoom, transformer.scale)
        shifted(p) ==
            LET dx == RDiv(RSub(p[1], rt.move_start_coords[1]), f)
                dy == RDiv(RSub(p[2], rt.move_start_coords[2]), f)
            IN  <<RAdd(o[1], dx), RAdd(o[2], dy), RAdd(o[3], dx), RAdd(o[4], dy)>>
        drag(m, s, p) == update_move(m, s, transformer, p[1], p[2])
        coords(s) == Region(s.regions, rt.move_region[1]).coords
        \* once[p]: the tool and the store after one drag to p
        all(once) ==
            /\ \A p \in Points :
                  /\ coords(once[p].s) = shifted(p)
                  /\ once[p].rt = rt
                  /\ \A p2 \in Points : drag(once[p].rt, once[p].s, p2).s = once[p2].s
            /\ rt.move_start_coords \in Points
            /\ coords(once[rt.move_start_coords].s) = o
    IN  (/\ rt.is_moving
         /\ rt.move_region # None
         /\ rt.move_region[1] \in Keys(regions)
         /\ rt.original_coords_move_canvas =
                <<pdf_to_canvas_coords(transformer, o[1], o[2]),
                  pdf_to_canvas_coords(transformer, o[3], o[4])>>)
        => all([p \in Points |-> drag(rt, Store, p)])

\* a move has been dragged away from its anchor under the transform of the
\* press: the region is not where it was at the press
C13_Witness ==
    /\ resize_tool.is_moving
    /\ ~resize_tool.is_resizing
    /\ resize_tool.move_region[1] \in Keys(regions)
    /\ resize_tool.original_coords_move_canvas =
           <<pdf_to_canvas_coords(transformer, resize_tool.original_coords_move_pdf[1],
                                  resize_tool.original_coords_move_pdf[2]),
             pdf_to_canvas_coords(transformer, resize_tool.original_coords_move_pdf[3],
                                  resize_tool.original_coords_move_pdf[4])>>
    /\ Region(regions, resize_tool.move_region[1]).coords
           # resize_tool.original_coords_move_pdf
    /\ \E p \in Points :
          /\ p # resize_tool.move_start_coords
          /\ Region(regions, resize_tool.move_region[1]).coords
               = update_move(resize_tool, Store, transformer, p[1], p[2]).s
                     .regions[KeyIndex(regions, resize_tool.move_region[1])].coords

\* C14: drawing a box does not write the store.  The press that starts a box
\* and every drag handled by the selection tools leave regions, region_order
\* and selected_region as they were; the release that ends the drawing adds
\* at most one region, at the end of region_order and under the label the
\* dialog returned, and only if it returned one; when the dialog is cancelled
\* the store is as it was, nothing is being drawn and no temporary rectangle
\* is left on the canvas.
C14_BoxDrawingFrame ==
    [][/\ (mode = "box" /\ \E p \in Points, dl \in AppDialogLabels :
                               Event(on_mouse_press(p[1], p[2], dl)))
          => /\ UNCHANGED <<regions, region_order, selected_region>>
             /\ box_tool'.is_drawing
       /\ (mode # "resize" /\ \E p \in Points : Event(on_mouse_drag(p[1], p[2])))
          => UNCHANGED <<regions, region_order, selected_region>>
       /\ \A dl \in AppDialogLabels :
             (mode = "box" /\ box_tool.is_drawing
                  /\ \E p \in Points : Event(on_mouse_release(p[1], p[2], dl)))
             => /\ ~box_tool'.is_drawing
                /\ box_tool'.temp_rect = None
                /\ selected_region' = selected_region
                /\ \/ UNCHANGED <<regions, region_order>>
                   \/ /\ dl # None
                      /\ dl[1] \notin Keys(regions)
                      /\ region_order' = Append(region_order, dl[1])
                      /\ Len(regions') = Len(regions) + 1
                      /\ regions'[Len(regions')].label = dl[1]
                      /\ \A i \in DOMAIN regions : regions'[i] = regions[i]
                /\ dl = None => UNCHANGED <<regions, region_order>>]_vars

\* a box is being drawn over a store that holds regions: the press and a
\* drag have been handled, the dashed rectangle is on the canvas
C14_Witness ==
    /\ mode = "box"
    /\ current_tool = "box"
    /\ button1_down
    /\ box_tool.is_drawing
    /\ box_tool.temp_rect # None
    /\ box_tool.temp_rect[1] # box_tool.temp_rect[3]
    /\ regions # <<>>
    /\ ~resize_tool.is_resizing /\ ~resize_tool.is_moving

\* C15: get_region_at_point returns None when the box of no region contains
\* the point converted to document space, and otherwise the label of a
\* region whose box contains it, boundary included, that comes after every
\* other such region in region_order - the order move_region leaves, not
\* the order of insertion.
C15_HitIsLastInOrder ==
    \A p \in Points :
        LET r == get_region_at_point(Store, transformer, p[1], p[2])
            f == RMul(transformer.zoom, transformer.scale)
            q == <<RDiv(RSub(p[1], transformer.offset_x), f),
                   RDiv(RSub(p[2], transformer.offset_y), f)>>
            le(a, b) == a[1] * b[2] <= b[1] * a[2]
            inside(i) == /\ le(regions[i].coords[1], q[1]) /\ le(q[1], regions[i].coords[3])
                         /\ le(regions[i].coords[2], q[2]) /\ le(q[2], regions[i].coords[4])
            pos(l) == CHOOSE k \in DOMAIN region_order : region_order[k] = l
        IN  IF \A i \in DOMAIN regions : ~inside(i)
            THEN r = None
            ELSE \E i \in DOMAIN regions :
                    /\ inside(i)
                    /\ r = Some(regions[i].label)
                    /\ \A j \in DOMAIN regions :
                          inside(j) => pos(regions[j].label) <= pos(regions[i].label)

\* two overlapping regions whose order was exchanged by move_region: a point
\* on the boundary of one and inside the other is answered with the region
\* that was inserted first and is now last in region_order
C15_Witness ==
    /\ Len(regions) = 2
    /\ regions[1].coords = RBox(20, 10, 50, 30)
    /\ regions[2].coords = RBox(0, 0, 40, 40)
    /\ region_order = <<regions[2].label, regions[1].label>>
    /\ canvas_to_pdf_coords(transformer, R(40), R(40)) = <<R(20), R(20)>>
    /\ get_region_at_point(Store, transformer, R(40), R(40)) = Some(regions[1].label)

\* C16: move_region(from_index, to_index) with from_index or to_index
\* outside 0 .. len(region_order) - 1, negative indices included, returns
\* False and leaves region_order, regions and selected_region as they were:
\* no index is wrapped around or clamped.
C16_MoveOutOfRange ==
    \A i \in -3..(Len(region_order) + 1), j \in -3..(Len(region_order) + 1) :
        (i < 0 \/ i >= Len(region_order) \/ j < 0 \/ j >= Len(region_order))
        => LET r == move_region(Store, i, j)
           IN  /\ r.ret = RetBool(FALSE)
               /\ r.s.region_order = region_order
               /\ r.s.regions = regions
               /\ r.s.selected_region = selected_region

\* a store of two regions, one of them selected: moving index -1 to 0 or
\* index 0 to 2 is refused, while moving index 1 to 0 exchanges the two
C16_Witness ==
    /\ Len(region_order) = 2
    /\ selected_region # None
    /\ ~move_region(Store, -1, 0).ret[1]
    /\ ~move_region(Store, 0, 2).ret[1]
    /\ move_region(Store, 1, 0).ret[1]
    /\ move_region(Store, 1, 0).s.region_order = <<region_order[2], region_order[1]>>

\* C17: saving a store with save_to_file and loading the file written with
\* load_from_file, into the same store or into another one, gives a store
\* with the same region_order and the same coords under every label, for
\* every reachable store - the empty one and those whose order was changed
\* by move_region or by a rename included.  The selection is not carried
\* over and every rectangle is drawn anew.
C17_SaveLoadRoundTrip ==
    LET f == save_to_file(Store, FileMissing, TRUE)
        others == {Store, clear_all_regions(Store)}
                      \cup {load_from_file(Store, d).s : d \in AppFiles}
    IN  /\ f.ret[1]
        /\ \A other \in others :
              LET r == load_from_file(other, f.file)
              IN  /\ r.ret[1]
                  /\ r.ret[3] = Len(region_order)
                  /\ r.s.region_order = region_order
                  /\ Keys(r.s.regions) = Keys(regions)
                  /\ \A l \in Keys(regions) :
                        Region(r.s.regions, l).coords = Region(regions, l).coords
                  /\ r.s.selected_region = None
                  /\ \A i \in DOMAIN r.s.regions : r.s.regions[i].rect_id >= other.next_id

\* a store of two regions with different boxes, one of them selected, whose
\* region_order is not the order of insertion: the file written holds this
\* order, and loading it gives the order back without the selection
C17_Witness ==
    /\ Len(regions) = 2
    /\ regions[1].coords # regions[2].coords
    /\ region_order = <<regions[2].label, regions[1].label>>
    /\ selected_region # None
    /\ save_to_file(Store, FileMissing, TRUE).file.order = region_order
    /\ load_from_file(Store, save_to_file(Store, FileMissing, TRUE).file).s.region_order
           = region_order
    /\ load_from_file(Store, save_to_file(Store, FileMissing, TRUE).file).s.selected_region
           = None

\* C18: load_from_file clears the regions, the order and the selection and
\* then adds the regions of the file through add_region in the sequence of
\* the file's order list.  For a file whose listed entries all have four
\* coords the load succeeds; the store then holds, in the sequence of the
\* list, the first occurrence of every listed label that has an entry and is
\* a valid label, and nothing of what it held before; a later occurrence of a
\* label is dropped without an error.  region_order has no label twice, its
\* labels are the keys of regions, the selection is None, and the count
\* reported is the number of regions in the store.
C18_LoadClearsAndDropsDuplicates ==
    \A d \in Files :
        LET r == load_from_file(Store, d)
            order == d.order
            blank(l) == \A i \in DOMAIN l : l[i] \in {" ", "\t", "\n", "\r"}
            good(k) == /\ order[k] \in DOMAIN d.regions
                       /\ ~blank(order[k])
                       /\ Len(order[k]) <= MaxLabelLen
                       /\ \A j \in 1..(k - 1) : order[j] # order[k]
            K == {k \in DOMAIN order : good(k)}
            loaded == r.s.region_order
        IN  (/\ d.kind = "object"
             /\ \A k \in DOMAIN order :
                   order[k] \in DOMAIN d.regions
                   => /\ d.regions[order[k]].has_coords
                      /\ Len(d.regions[order[k]].coords) = 4)
            => /\ r.ret[1]
               /\ Len(loaded) = Cardinality(K)
               /\ \A k \in K : loaded[Cardinality({j \in K : j <= k})] = order[k]
               /\ \A i \in DOMAIN loaded :
                     Region(r.s.regions, loaded[i]).coords
                       = normalize_rect(d.regions[loaded[i]].coords[1],
                                        d.regions[loaded[i]].coords[2],
                                        d.regions[loaded[i]].coords[3],
                                        d.regions[loaded[i]].coords[4])
               /\ \A i \in DOMAIN loaded, j \in DOMAIN loaded : loaded[i] = loaded[j] => i = j
               /\ Keys(r.s.regions) = {loaded[i] : i \in DOMAIN loaded}
               /\ Len(r.s.regions) = Len(loaded)
               /\ r.s.region_labels = Keys(r.s.regions)
               /\ r.s.selected_region = None
               /\ r.ret[3] = Len(r.s.regions)

\* a store that holds a selected region under a label the file does not
\* list: loading a file that lists B, A, B gives the store B, A with no
\* selection and reports two regions
C18_Witness ==
    /\ LblLong \in Keys(regions)
    /\ selected_region = Some(LblLong)
    /\ LET r == load_from_file(Store,
                    FileObject(<<LblB, LblA, LblB>>,
                               [l \in {LblA, LblB} |-> Entry(RBox(50, 30, 20, 10))]))
       IN  /\ r.ret = <<TRUE, "Loaded", 2>>
           /\ r.s.region_order = <<LblB, LblA>>
           /\ Keys(r.s.regions) = {LblA, LblB}
           /\ r.s.selected_region = None

\* C19: a load of a file in which some entries are malformed - an entry
\* without coords, or with coords that are not four numbers - is a partial
\* load: every entry of the order list that is well-formed, has a valid label
\* and is the first of its label is in the store after the load, also when it
\* is listed after a malformed one.
C19_MalformedEntriesSkipped ==
    [][\A d \in Files :
          (d.kind = "object" /\ Call(LoadFromFile(d)))
          => \A k \in DOMAIN d.order :
                (/\ d.order[k] \in DOMAIN d.regions
                 /\ d.regions[d.order[k]].has_coords
                 /\ Len(d.regions[d.order[k]].coords) = 4
                 /\ validate_label(d.order[k], {})[1])
                => /\ d.order[k] \in Keys(regions')
                   /\ \E i \in DOMAIN region_order' : region_order'[i] = d.order[k]]_vars

\* C20: a load that fails changes nothing.  Whenever load_from_file reports
\* failure - the file is missing, its content is not JSON, or it is JSON of
\* the wrong structure - regions, region_order and selected_region are what
\* they were before the call.
C20_FailedLoadChangesNothing ==
    [][\A d \in Files :
          (Call(LoadFromFile(d)) /\ ~load_from_file(Store, d).ret[1])
          => UNCHANGED <<regions, region_order, selected_region>>]_vars

\* C21: every rectangle created for a region is deleted from the canvas
\* exactly once: a rectangle is on the canvas exactly while it is the
\* rect_id of a region (a rename keeps it, a removal or a clear deletes it,
\* no rectangle of a removed region stays), a rectangle that is gone was
\* named by one canvas.delete call, and none is named by a second one, also
\* when a page is rendered and redraw_all_regions follows.
C21_HandleDeletedOnce ==
    /\ DOMAIN items = {regions[i].rect_id : i \in DOMAIN regions}
    /\ \A id \in 1..(next_id - 1) :
          IF id \in DOMAIN items
          THEN id \notin DOMAIN deleted
          ELSE id \in DOMAIN deleted /\ deleted[id] = 1

\* C22: for every label L present in the store update_region_label(L, L)
\* returns success and leaves region_order - the position of L and every
\* other position - the coords of L and the selection as they were.
C22_RenameToSelf ==
    \A l \in Keys(regions) :
        LET r == update_region_label(Store, l, l)
        IN  /\ r.ret = Ret(TRUE, "")
            /\ r.s.region_order = region_order
            /\ Region(r.s.regions, l).coords = Region(regions, l).coords
            /\ r.s.selected_region = selected_region

\* two regions, the first of region_order selected: renaming it to itself
\* succeeds with the order and the selection kept, although it moves the key
\* to the end of the dict
C22_Witness ==
    /\ Len(region_order) = 2
    /\ regions[1].label = region_order[1]
    /\ selected_region = Some(region_order[1])
    /\ update_region_label(Store, region_order[1], region_order[1]).ret[1]
    /\ update_region_label(Store, region_order[1], region_order[1]).s.region_order
           = region_order
    /\ update_region_label(Store, region_order[1], region_order[1]).s.regions[2].label
           = region_order[1]

\* C23: a press in resize mode that is near no corner of any region and
\* inside the box of no region is forwarded to the active selection tool,
\* whose press handling runs: the box tool starts a drawing at the press
\* point; the word tool, for a word under the pointer and a valid new label
\* returned by the dialog, adds the region of the word.
C23_PressForwarded ==
    [][\A p \in Points, dl \in AppDialogLabels :
          (/\ mode = "resize"
           /\ \A i \in DOMAIN regions :
                 /\ check_corner_proximity(Store, transformer, p[1], p[2],
                                           regions[i].label) = NoCorner
                 /\ ~ContainsCanvasPoint(transformer, regions[i], p[1], p[2])
           /\ Event(on_mouse_press(p[1], p[2], dl)))
          => /\ current_tool = "box"
                => /\ box_tool'.is_drawing
                   /\ box_tool'.start_pos = canvas_to_image_coords(transformer, p[1], p[2])
             /\ (/\ current_tool = "word"
                 /\ find_word_at_position(pdf.text_coords, transformer, p[1], p[2]) # None
                 /\ dl # None
                 /\ validate_label(dl[1], region_labels)[1])
                => dl[1] \in Keys(regions')]_vars

\* C24: after any sequence of add_pdfs, remove_pdf and clear_all_pdfs no two
\* entries of pdf_files normalize to the same absolute path and the validator's
\* file set is exactly the set of normalized paths of pdf_files; adding a path
\* whose normalized form is already tracked, also under another text, is
\* rejected as a duplicate and changes nothing; a removed path can be added again.
C24_PdfListTracksNormalizedPaths ==
    /\ \A i \in DOMAIN pdf_files, j \in DOMAIN pdf_files :
          normalized_path(pdf_files[i]) = normalized_path(pdf_files[j]) => i = j
    /\ file_paths = {normalized_path(pdf_files[i]) : i \in DOMAIN pdf_files}
    /\ \A f \in PathTexts :
          (f # <<>> /\ normalized_path(f) \in file_paths) =>
              LET r == add_pdfs(PdfList, <<f>>)
              IN  /\ r.p = PdfList
                  /\ r.ret = <<0, <<<<basename(f), ERROR_DUPLICATE_FILE>>>>>>
    /\ \A i \in DOMAIN pdf_files :
          LET removed == remove_pdf(PdfList, i - 1)
              again == add_pdfs(removed.p, <<pdf_files[i]>>)
          IN  /\ removed.ret
              /\ normalized_path(pdf_files[i]) \notin removed.p.file_paths
              /\ again.ret = <<1, <<>>>>
              /\ again.p.pdf_files = Append(removed.p.pdf_files, pdf_files[i])

\* a list that tracks a.pdf under a relative text, while other texts of the
\* same file are offered, and a second file
C24_Witness ==
    /\ Len(pdf_files) = 2
    /\ pdf_files[1] = Paths.a_rel
    /\ Paths.a \in file_paths
    /\ normalized_path(Paths.a_dot) \in file_paths

\* C25: when zoom * scale = 0, image_to_pdf_coords and canvas_to_pdf_coords
\* return (0, 0) for every point; otherwise they return the point divided by
\* zoom * scale, canvas_to_pdf_coords after subtracting the offsets.
C25_ZeroFactorGivesOrigin ==
    LET f == RMul(last_call.t.zoom, last_call.t.scale)
        p == last_call.arg
        ox == last_call.t.offset_x
        oy == last_call.t.offset_y
    IN  /\ last_call.op = "image_to_pdf_coords" =>
              /\ ~last_call.raised
              /\ last_call.value = IF f = RZero THEN <<RZero, RZero>>
                                   ELSE <<RDiv(p[1], f), RDiv(p[2], f)>>
        /\ last_call.op = "canvas_to_pdf_coords" =>
              /\ ~last_call.raised
              /\ last_call.value = IF f = RZero THEN <<RZero, RZero>>
                                   ELSE <<RDiv(RSub(p[1], ox), f), RDiv(RSub(p[2], oy), f)>>

\* canvas_to_pdf_coords was called on a point off the origin while scale was 0
\* and the offsets were not
C25_Witness ==
    /\ last_call.op = "canvas_to_pdf_coords"
    /\ last_call.t.scale = RZero
    /\ last_call.t.zoom # RZero
    /\ last_call.t.offset_x # RZero
    /\ last_call.arg = <<R(3), R(4)>>
    /\ last_call.value = <<RZero, RZero>>

\* C26: for every transform state, zoom = 0 and scale = 0 included, every
\* conversion of CoordinateTransformer returns a value instead of raising.
C26_ConversionsNeverRaise ==
    last_call.op # "none" => ~last_call.raised

\* C27: with zoom * scale # 0, image_to_pdf_coords undoes pdf_to_image_coords and
\* canvas_to_pdf_coords undoes pdf_to_canvas_coords; canvas_to_image_coords
\* undoes image_to_canvas_coords in every transform state.
C27_RoundTrips ==
    LET t == last_call.t
        v == last_call.value
    IN  /\ (last_call.op = "pdf_to_image_coords" /\ RMul(t.zoom, t.scale) # RZero)
               => image_to_pdf_coords(t, v[1], v[2]) = last_call.arg
        /\ (last_call.op = "pdf_to_canvas_coords" /\ RMul(t.zoom, t.scale) # RZero)
               => canvas_to_pdf_coords(t, v[1], v[2]) = last_call.arg
        /\ last_call.op = "image_to_canvas_coords"
               => canvas_to_image_coords(t, v[1], v[2]) = last_call.arg

\* pdf_to_canvas_coords was called with a factor of 3 and offsets off zero on a
\* point with a fractional coordinate
C27_Witness ==
    /\ last_call.op = "pdf_to_canvas_coords"
    /\ last_call.t.scale = Rat(3, 2)
    /\ last_call.t.zoom = R(DEFAULT_ZOOM)
    /\ last_call.t.offset_x = R(20)
    /\ last_call.arg = <<Rat(1, 3), R(20)>>
    /\ last_call.value = <<R(21), R(55)>>

\* C28: move_region(from_index, to_index) with both indices in
\* [0, len(region_order)) returns True; afterwards the label that was at
\* from_index is at to_index, the other labels keep their relative order,
\* region_order is a permutation of its previous value, and regions and
\* selected_region are unchanged.
C28_MoveInRange ==
    \A i \in 0..(Len(region_order) - 1), j \in 0..(Len(region_order) - 1) :
        LET r == move_region(Store, i, j)
            label == region_order[i + 1]
            Other(l) == l # label
            Count(seq, l) == Cardinality({k \in DOMAIN seq : seq[k] = l})
        IN  /\ r.ret = RetBool(TRUE)
            /\ r.s.region_order[j + 1] = label
            /\ SelectSeq(r.s.region_order, Other) = SelectSeq(region_order, Other)
            /\ Len(r.s.region_order) = Len(region_order)
            /\ \A k \in DOMAIN region_order :
                  Count(r.s.region_order, region_order[k]) = Count(region_order, region_order[k])
            /\ r.s.regions = regions
            /\ r.s.selected_region = selected_region
            /\ r.s.items = items

\* three regions, one selected, and the first moved to the end
C28_Witness ==
    /\ Len(region_order) = 3
    /\ selected_region # None
    /\ move_region(Store, 0, 2).ret[1]
    /\ move_region(Store, 0, 2).s.region_order
           = <<region_order[2], region_order[3], region_order[1]>>
    /\ move_region(Store, 2, 0).s.region_order
           = <<region_order[3], region_order[1], region_order[2]>>

\* C29: update_region_coords on a present label returns True and overwrites only
\* that region's coords, the region keeping its rect_id; every other region,
\* region_order and selected_region are unchanged.  On an absent label it
\* returns False and nothing changes, so a drag or a cancel aimed at a region
\* that was removed meanwhile never recreates it.
C29_UpdateCoordsFrame ==
    /\ \A l \in {LblA, LblB}, c \in Boxes :
          LET r == update_region_coords(Store, l, c)
          IN  IF l \in Keys(regions)
              THEN /\ r.ret = RetBool(TRUE)
                   /\ Len(r.s.regions) = Len(regions)
                   /\ \A i \in DOMAIN regions :
                         /\ r.s.regions[i].label = regions[i].label
                         /\ r.s.regions[i].rect_id = regions[i].rect_id
                         /\ r.s.regions[i].coords =
                                IF regions[i].label = l
                                THEN normalize_rect(c[1], c[2], c[3], c[4])
                                ELSE regions[i].coords
                   /\ [r.s EXCEPT !.regions = regions] = Store
              ELSE r.ret = RetBool(FALSE) /\ r.s = Store
    /\ (resize_tool.is_resizing /\ resize_tool.resize_region[1] \notin Keys(regions))
          => /\ \A p \in Points :
                   resize_handle_mouse_drag(resize_tool, Store, transformer,
                                            p[1], p[2]).s = Store
             /\ cancel_resize(resize_tool, Store).s = Store
    /\ (resize_tool.is_moving /\ resize_tool.move_region[1] \notin Keys(regions))
          => \A p \in Points :
                 resize_handle_mouse_drag(resize_tool, Store, transformer,
                                          p[1], p[2]).s = Store

\* a corner of B is being dragged, B was removed meanwhile, and A is still there
C29_Witness ==
    /\ resize_tool.is_resizing
    /\ resize_tool.resize_region = Some(LblB)
    /\ Keys(regions) = {LblA}
    /\ ~update_region_coords(Store, LblB, RBox(50, 30, 20, 10)).ret[1]
    /\ update_region_coords(Store, LblA, RBox(50, 30, 20, 10)).ret[1]

\* C30: the release that ends a Resizing or Moving interaction restores default
\* visuals: after it the target region's outline is the default style, or the
\* selected style if it is the selected region, and its coords are the ones the
\* last drag wrote.
C30_ReleaseRestoresVisuals ==
    [][(/\ button1_down /\ ~button1_down'
        /\ mode = "resize"
        /\ resize_tool.is_resizing \/ resize_tool.is_moving)
       => LET target == IF resize_tool.is_resizing THEN resize_tool.resize_region[1]
                        ELSE resize_tool.move_region[1]
          IN  (target \in Keys(regions) /\ Region(regions, target).rect_id \in DOMAIN items)
              => /\ ~resize_tool'.is_resizing /\ ~resize_tool'.is_moving
                 /\ Region(regions', target).coords = Region(regions, target).coords
                 /\ items'[Region(regions', target).rect_id] =
                        IF selected_region' = Some(target)
                        THEN REGION_COLOR_SELECTED ELSE REGION_COLOR_DEFAULT]_vars

\* C31: cancel_resize during a Resizing interaction sets the target region's
\* coords back to the coords captured at the press, whatever happened in
\* between, and leaves the tool Idle with all resize state cleared; when no
\* resize is active it returns False and changes neither the store nor the tool.
\* The press that starts a resize captures the target's coords, they stay
\* captured until a press starts the next resize, and the cancel writes them
\* back.
C31_CancelRestoresCaptured ==
    [][/\ (~resize_tool.is_resizing /\ resize_tool'.is_resizing)
            => /\ resize_tool'.resize_region[1] \in Keys(regions)
               /\ resize_tool'.original_coords
                      = Region(regions, resize_tool'.resize_region[1]).coords
       /\ (resize_tool.is_resizing /\ resize_tool'.is_resizing)
            => \/ /\ resize_tool'.original_coords = resize_tool.original_coords
                  /\ resize_tool'.resize_region = resize_tool.resize_region
               \* a press that starts the next resize captures anew
               \/ /\ ~button1_down /\ button1_down'
                  /\ resize_tool'.resize_region[1] \in Keys(regions)
                  /\ resize_tool'.original_coords
                         = Region(regions, resize_tool'.resize_region[1]).coords
       /\ (Event(CancelResize) /\ resize_tool.is_resizing)
            => /\ cancel_resize(resize_tool, Store).ret
               /\ resize_tool' = [resize_tool EXCEPT !.is_resizing = FALSE,
                                                     !.resize_region = None,
                                                     !.resize_corner = NoCorner,
                                                     !.start_coords = None,
                                                     !.original_coords = None]
               /\ resize_tool.resize_region[1] \in Keys(regions)
                    => /\ Region(regions', resize_tool.resize_region[1]).coords
                              = resize_tool.original_coords
                       /\ \A i \in DOMAIN regions :
                             /\ regions'[i].label = regions[i].label
                             /\ regions[i].label # resize_tool.resize_region[1]
                                    => regions'[i] = regions[i]
       /\ (Event(CancelResize) /\ ~resize_tool.is_resizing)
            => /\ ~cancel_resize(resize_tool, Store).ret
               /\ UNCHANGED <<store_vars, resize_tool>>]_vars

\* a resize whose drags took the region away from the coords captured at the
\* press, so that a cancel has something to undo
C31_Witness ==
    /\ resize_tool.is_resizing
    /\ resize_tool.resize_region[1] \in Keys(regions)
    /\ Region(regions, resize_tool.resize_region[1]).coords # resize_tool.original_coords
    /\ Region(cancel_resize(resize_tool, Store).s.regions,
              resize_tool.resize_region[1]).coords = resize_tool.original_coords
    /\ ~cancel_resize(resize_tool, Store).rt.is_resizing

\* C32: when the mode is switched while a box is mid-draw (after a box press,
\* before its release), the transient rectangle is removed from the surface and
\* the box tool stops drawing, with its anchor cleared, and the switch creates
\* no region.
C32_SwitchDiscardsBox ==
    [][(box_tool.is_drawing /\ button1_down /\ mode' # mode)
       => /\ ~box_tool'.is_drawing
          /\ box_tool'.temp_rect = None
          /\ box_tool'.start_pos = None
          /\ UNCHANGED <<regions, region_order>>]_vars

\* C33: hover handling is idempotent and read-only on the model.  A hover
\* leaves regions, region_order, selected_region and the interaction state as
\* they were, and in resize mode it leaves the cursor and the corner indicators
\* (none, or the four of one region) that a second hover at the same position
\* leaves again; outside resize mode it leaves both alone.
C33_HoverIdempotent ==
    [][\A p \in Points :
          Event(on_mouse_hover(p[1], p[2]))
          => /\ UNCHANGED <<store_vars, resize_tool, box_tool, current_tool, mode,
                            transformer, button1_down>>
             /\ mode # "resize" => UNCHANGED <<cursor, corner_indicators>>
             /\ mode = "resize"
                  => /\ [cursor |-> cursor', corner_indicators |-> corner_indicators']
                            = resize_handle_mouse_move(Store', transformer', p[1], p[2])
                     /\ \/ corner_indicators' = <<>> /\ cursor' = ""
                        \/ /\ cursor' # ""
                           /\ \E i \in DOMAIN regions :
                                 corner_indicators'
                                     = corners_of_box(transformer, regions[i].coords)]_vars

\* the pointer hovers near a corner of a region: four indicators and a resize
\* cursor are up, and a hover at the same position gives the same again
C33_Witness ==
    /\ mode = "resize"
    /\ ~button1_down
    /\ Len(corner_indicators) = 4
    /\ cursor # ""
    /\ \E p \in Points :
          resize_handle_mouse_move(Store, transformer, p[1], p[2])
              = [cursor |-> cursor, corner_indicators |-> corner_indicators]

\* C34: at no point, the intermediate steps of select_region and of
\* redraw_all_regions included, do two regions carry the selected style at
\* once: select_region(L) first puts the previously selected region back to
\* the default style and only then gives L the selected style, and after it
\* completes L is the only region with the selected style.
C34_OneSelectedStyle ==
    LET styled(s) == {i \in DOMAIN s.items : s.items[i] = REGION_COLOR_SELECTED}
        cleared == IF selected_region # None
                   THEN set_region_color(Store, selected_region[1], REGION_COLOR_DEFAULT)
                   ELSE Store
        redrawn(j) == redraw_from([Store EXCEPT !.region_order = SubSeq(region_order, 1, j)], 1)
    IN  /\ Cardinality(styled(Store)) <= 1
        /\ \A l \in Keys(regions) :
              /\ styled(cleared) = {}
              /\ styled(select_region(Store, l).s) = {Region(regions, l).rect_id}
              /\ select_region(Store, l).s.selected_region = Some(l)
        /\ \A j \in 0..Len(region_order) : Cardinality(styled(redrawn(j))) <= 1
        /\ selected_region # None
              => styled(redraw_all_regions(Store))
                    = {Region(redraw_all_regions(Store).regions, selected_region[1]).rect_id}

\* one of two regions is selected and carries the selected style; selecting the
\* other one moves the style
C34_Witness ==
    /\ Len(regions) >= 2
    /\ selected_region # None
    /\ items[Region(regions, selected_region[1]).rect_id] = REGION_COLOR_SELECTED
    /\ \E l \in Keys(regions) :
          /\ Some(l) # selected_region
          /\ select_region(Store, l).s.items[Region(regions, l).rect_id]
                 = REGION_COLOR_SELECTED
          /\ select_region(Store, l).s.items[Region(regions, selected_region[1]).rect_id]
                 = REGION_COLOR_DEFAULT

\* C35: DuplicateValidator.update_label(old, new) returns False and leaves the
\* label set unchanged if and only if new differs from old and new is already
\* in the set; in every other case it returns True and the label set becomes
\* the previous set without old, plus new.
C35_UpdateLabel ==
    \A old \in Labels, new \in Labels :
        LET r == update_label(region_labels, old, new)
        IN  /\ ~r[1] <=> (new # old /\ new \in region_labels)
            /\ ~r[1] => r[2] = region_labels
            /\ r[1] => /\ new \in r[2]
                       /\ old # new => old \notin r[2]
                       /\ \A l \in Labels \ {old, new} : l \in r[2] <=> l \in region_labels
                       /\ r[2] \subseteq region_labels \cup {new}

\* two labels are tracked: renaming one to the other fails, to itself and to
\* an untracked label succeeds, and so does renaming an untracked label
C35_Witness ==
    /\ {LblA, LblB} \subseteq region_labels
    /\ ~update_label(region_labels, LblA, LblB)[1]
    /\ update_label(region_labels, LblA, LblA) = <<TRUE, region_labels>>
    /\ \E n \in Labels \ region_labels :
          /\ update_label(region_labels, LblA, n)
                 = <<TRUE, (region_labels \ {LblA}) \cup {n}>>
          /\ update_label(region_labels, n, n) = <<TRUE, region_labels \cup {n}>>

\* C36: canvas_to_pdf_delta(dx, dy) returns (dx / scale, dy / scale) in every
\* state with scale # 0: it divides by scale only and does not depend on zoom
\* or on the offsets.
C36_DeltaDividesByScale ==
    (last_call.op = "canvas_to_pdf_delta" /\ last_call.t.scale # RZero)
    => /\ ~last_call.raised
       /\ last_call.value = <<RDiv(last_call.arg[1], last_call.t.scale),
                              RDiv(last_call.arg[2], last_call.t.scale)>>
       /\ \A zoom \in TransformInputs.zooms, o \in TransformInputs.offsets :
             canvas_to_pdf_delta(set_transform_params(zoom, last_call.t.scale, o[1], o[2]),
                                 last_call.arg[1], last_call.arg[2]).value
                 = last_call.value

\* canvas_to_pdf_delta was called with zoom 2, scale 3/2 and offsets off zero:
\* (3, 4) gave (2, 8/3), not the (1, 4/3) that zoom * scale gives
C36_Witness ==
    /\ last_call.op = "canvas_to_pdf_delta"
    /\ last_call.t.zoom = R(DEFAULT_ZOOM)
    /\ last_call.t.scale = Rat(3, 2)
    /\ last_call.t.offset_x = R(20)
    /\ last_call.arg = <<R(3), R(4)>>
    /\ last_call.value = <<R(2), Rat(8, 3)>>

\* C37: when a press in resize mode matches several regions, by corner
\* proximity or, when no corner matches, by containment, the region chosen is
\* the first matching one in the store's region_order, also after regions were
\* renamed or reordered with move_region.
C37_FirstInRegionOrder ==
    \A p \in Points :
        LET r == resize_handle_mouse_press(resize_tool, Store, transformer, cursor,
                                           p[1], p[2])
            near == {l \in Keys(regions) :
                        check_corner_proximity(Store, transformer, p[1], p[2], l) # NoCorner}
            inside == {regions[i].label : i \in
                          {k \in DOMAIN regions :
                              ContainsCanvasPoint(transformer, regions[k], p[1], p[2])}}
            first(M) == region_order[CHOOSE i \in DOMAIN region_order :
                            /\ region_order[i] \in M
                            /\ \A j \in 1..(i - 1) : region_order[j] \notin M]
        IN  IF near # {}
            THEN r.rt.is_resizing /\ r.rt.resize_region = Some(first(near))
            ELSE inside # {} => r.rt.is_moving /\ r.rt.move_region = Some(first(inside))

\* C38: during a Moving interaction under the transform of the press, with
\* zoom * scale # 0, a drag to the pointer (x, y) leaves the region with the
\* box captured at the press translated by ((x - ax) / (zoom * scale),
\* (y - ay) / (zoom * scale)), (ax, ay) being the press anchor in viewport
\* space; its width and height are those at the press, and no other region,
\* the order or the selection changes.  The press that starts the move captures
\* the box and the anchor, and they stay captured until a press starts the
\* next move.
C38_MoveTranslatesCaptured ==
    [][/\ (~resize_tool.is_moving /\ resize_tool'.is_moving)
            => /\ resize_tool'.move_region[1] \in Keys(regions)
               /\ resize_tool'.original_coords_move_pdf
                      = Region(regions, resize_tool'.move_region[1]).coords
               /\ resize_tool'.move_start_coords \in Points
       /\ (resize_tool.is_moving /\ resize_tool'.is_moving)
            => \/ /\ resize_tool'.original_coords_move_pdf
                         = resize_tool.original_coords_move_pdf
                  /\ resize_tool'.move_start_coords = resize_tool.move_start_coords
                  /\ resize_tool'.move_region = resize_tool.move_region
               \* a press that starts the next move captures anew
               \/ /\ ~button1_down /\ button1_down'
                  /\ resize_tool'.move_region[1] \in Keys(regions)
                  /\ resize_tool'.original_coords_move_pdf
                         = Region(regions, resize_tool'.move_region[1]).coords
                  /\ resize_tool'.move_start_coords \in Points
       /\ \A p \in Points :
             LET o == resize_tool.original_coords_move_pdf
                 a == resize_tool.move_start_coords
                 f == RMul(transformer.zoom, transformer.scale)
                 target == resize_tool.move_region[1]
                 dx == RDiv(RSub(p[1], a[1]), f)
                 dy == RDiv(RSub(p[2], a[2]), f)
                 box == Region(regions', target).coords
             IN  (/\ Event(on_mouse_drag(p[1], p[2]))
                  /\ mode = "resize" /\ ~resize_tool.is_resizing /\ resize_tool.is_moving
                  /\ target \in Keys(regions)
                  /\ f # RZero
                  /\ resize_tool.original_coords_move_canvas
                         = <<pdf_to_canvas_coords(transformer, o[1], o[2]),
                             pdf_to_canvas_coords(transformer, o[3], o[4])>>)
                 => /\ box = <<RAdd(o[1], dx), RAdd(o[2], dy), RAdd(o[3], dx), RAdd(o[4], dy)>>
                    /\ RSub(box[3], box[1]) = RSub(o[3], o[1])
                    /\ RSub(box[4], box[2]) = RSub(o[4], o[2])
                    /\ \A i \in DOMAIN regions :
                          /\ regions'[i].label = regions[i].label
                          /\ regions'[i].rect_id = regions[i].rect_id
                          /\ regions[i].label # target => regions'[i] = regions[i]
                    /\ Len(regions') = Len(regions)
                    /\ UNCHANGED <<region_order, selected_region>>]_vars

\* a move under the transform of its press has taken the region away from the
\* box captured at the press, keeping its width and height
C38_Witness ==
    LET o == resize_tool.original_coords_move_pdf
        box == Region(regions, resize_tool.move_region[1]).coords
    IN  /\ resize_tool.is_moving
        /\ resize_tool.move_region[1] \in Keys(regions)
        /\ Len(regions) = 2
        /\ box # o
        /\ RSub(box[3], box[1]) = RSub(o[3], o[1])
        /\ RSub(box[4], box[2]) = RSub(o[4], o[2])
        /\ resize_tool.original_coords_move_canvas
               = <<pdf_to_canvas_coords(transformer, o[1], o[2]),
                   pdf_to_canvas_coords(transformer, o[3], o[4])>>

\* C39: after every completed handler of the user interface - adding a word or
\* box region, rename, move up or down, delete, load configuration whether it
\* succeeds or fails - the region listbox has exactly one entry per element of
\* region_order, in the same sequence, so every index taken from the listbox
\* selection is a valid index of region_order.
C39_ListboxShowsRegionOrder ==
    /\ Len(region_listbox) = Len(region_order)
    /\ \A i \in DOMAIN region_listbox :
          /\ i \in DOMAIN region_order
          /\ region_listbox[i].number = i
          /\ region_listbox[i].label = region_order[i]

====
